---- MODULE Spec2Model ----
(***************************************************************************)
(* The k-means clustering engine of tracknaliser: cluster                  *)
(* (tracknaliser/clustering.py) and cluster_numpy                          *)
(* (tracknaliser/clustering_numpy.py).                                     *)
(*                                                                         *)
(* Numbers.  Input coordinates are small integers.  Every centroid the     *)
(* code computes is a mean of at most MaxLen input points, so a centroid   *)
(* coordinate is stored multiplied by Scale = lcm(1..MaxLen), which makes  *)
(* every mean an exact integer.  A centroid is a record [nan, at]: nan is  *)
(* TRUE for the all-NaN row numpy's mean of an empty selection yields, at  *)
(* holds the scaled coordinates.  Distances are kept squared: sqrt is      *)
(* strictly increasing, and the code only compares distances.              *)
(***************************************************************************)
EXTENDS Integers, Sequences, FiniteSets, TLC

\* ------------------------------------------------------------------ bounds
MaxN == 3
MaxCoord == 2
MaxK == 2
MaxM == 2

\* ------------------------------------------------- the scenario of spec 8
ScenarioPoints == << <<0, 0>>, <<0, 1>>, <<10, 10>>, <<10, 11>> >>

Scenario == [points_list |-> ScenarioPoints, Max_iterations |-> 5, clusters |-> 2]

\* ----------------------------------------------------------------- helpers
Max2(a, b) == IF a >= b THEN a ELSE b

MaxLen == Max2(MaxN, Len(ScenarioPoints))

RECURSIVE Gcd(_, _)
Gcd(a, b) == IF b = 0 THEN a ELSE Gcd(b, a % b)

RECURSIVE LcmUpTo(_)
LcmUpTo(n) == IF n <= 1 THEN 1 ELSE (LcmUpTo(n - 1) * n) \div Gcd(LcmUpTo(n - 1), n)

Scale == LcmUpTo(MaxLen)

Ids(k) == 0 .. (k - 1)

RECURSIVE SumOver(_, _)
SumOver(f, S) ==
    IF S = {} THEN 0
    ELSE LET x == CHOOSE y \in S : TRUE IN f[x] + SumOver(f, S \ {x})

\* C-style conversion of a scaled real to an integer: truncation toward zero.
TruncToInt(x) == IF x >= 0 THEN (x \div Scale) * Scale ELSE -(((-x) \div Scale) * Scale)

\* A Python or numpy number with the value of the integer x.
Num(x) == x * Scale

Centroid(at) == [nan |-> FALSE, at |-> at]

\* The point p as a centroid (a centroid initially is an input point).
AsCentroid(p) == Centroid([i \in DOMAIN p |-> Num(p[i])])

\* ------------------------------------------------------------------ inputs
PointValues == {<<x>> : x \in 0 .. MaxCoord}

\* The lists a caller passes: up to MaxN points, duplicates allowed, drawn in
\* non-decreasing order (the initial centres are drawn from any positions, so every
\* pairing of cluster ids with points still occurs).
PointLists ==
    UNION {{l \in [1 .. n -> PointValues] : \A i \in 1 .. (n - 1) : l[i][1] <= l[i + 1][1]} :
           n \in 0 .. MaxN}

ClusterCounts == -1 .. MaxK

IterationBudgets == -1 .. MaxM

Arguments ==
    [points_list : PointLists, Max_iterations : IterationBudgets,
     clusters : ClusterCounts, output_print : BOOLEAN]
    \cup
    [points_list : {Scenario.points_list}, Max_iterations : {Scenario.Max_iterations},
     clusters : {Scenario.clusters}, output_print : BOOLEAN]

\* ------------------------------------------------------------------- state
VARIABLES
    fn,                    \* the function called: "none", "cluster", "cluster_numpy"
    points_list,           \* the caller's list of points
    Max_iterations,
    clusters,
    output_print,
    dtype,                 \* cluster_numpy: element type of np.array(points_list)
    nan_cast,              \* cluster_numpy: what the build stores for NaN in an int64 array
    pc,                    \* "idle", "loop", "done", "raised"
    dimension,
    picks,                 \* the indices drawn by the initializer, in drawing order
    centers,
    iteration,
    allocated_cluster,     \* the assignment of the latest pass (alloc in cluster_numpy)
    clusters_information,
    raised,                \* the exception that ended the call, or "none"
    raise_line,            \* the source line that raised it, or 0
    returned,              \* "nothing", "dict" (clusters_information) or "None"
    printed,               \* the summary lines written by print_points
    random_state,          \* how many values each global generator has yielded
    stream,                \* the values the seeding of the generators makes them yield
    calls,                 \* the clustering calls in progress in separate threads
    self,                  \* the Tracks or SingleTrack object a method is called on
    method,                \* the method or function called, with its arguments
    outcome,               \* what the call raised or returned
    requests,              \* the network requests made so far
    files,                 \* the files written so far
    heap,                  \* the objects of the interpreter, an object's id its position
    frame                  \* the names of a clustering call bound to objects of the heap

\* The state of one call of cluster or cluster_numpy.
cluster_vars == <<fn, points_list, Max_iterations, clusters, output_print, dtype, nan_cast,
                  pc, dimension, picks, centers, iteration, allocated_cluster,
                  clusters_information, raised, raise_line, returned, printed>>

\* The generators of the random and numpy.random modules, and the calls that share them.
random_vars == <<random_state, stream, calls>>

\* A call of a method of tracks.py or of a function of load.py.
call_vars == <<self, method, outcome, requests, files>>

\* The objects a clustering call reads and writes, and its local names.
heap_vars == <<heap, frame>>

vars == <<cluster_vars, random_vars, call_vars, heap_vars>>

args == <<points_list, Max_iterations, clusters, output_print>>

\* No call of cluster or cluster_numpy has been made.
cluster_idle ==
    /\ fn = "none"
    /\ points_list = <<>>
    /\ Max_iterations = 0
    /\ clusters = 0
    /\ output_print = FALSE
    /\ dtype = "none"
    /\ nan_cast = 0
    /\ pc = "idle"
    /\ dimension = 0
    /\ picks = <<>>
    /\ centers = <<>>
    /\ iteration = 0
    /\ allocated_cluster = <<>>
    /\ clusters_information = <<>>
    /\ raised = "none"
    /\ raise_line = 0
    /\ returned = "nothing"
    /\ printed = <<>>

\* The two global generators, random's and numpy.random's, have yielded nothing.
Generators == {"random", "np.random"}

random_idle ==
    /\ random_state = [g \in Generators |-> 0]
    /\ stream = <<>>
    /\ calls = <<>>

\* No method of tracks.py and no function of load.py has been called.
call_idle ==
    /\ self = <<>>
    /\ method = [name |-> "none"]
    /\ outcome = [raised |-> "none"]
    /\ requests = 0
    /\ files = 0

\* No object has been made.
heap_idle ==
    /\ heap = <<>>
    /\ frame = [pc |-> "idle"]

Init == cluster_idle /\ random_idle /\ call_idle /\ heap_idle

\* The call ends with exception exc raised at source line ln; nothing else changes.
Raise(exc, ln) ==
    /\ pc' = "raised"
    /\ raised' = exc
    /\ raise_line' = ln

\* ------------------------------------------------ clustering.py, operators

\* Squared Euclidean distance, in Scale^2 units.
calculate_distance(center_point, point, dim) ==
    LET sq == [i \in 1 .. dim |-> (Num(point[i]) - center_point.at[i]) * (Num(point[i]) - center_point.at[i])]
    IN SumOver(sq, 1 .. dim)

\* find_best_cluster returning the last index that holds the least distance.
find_best_cluster_last(k, point, cs, dim) ==
    LET distance == [cluster_id \in Ids(k) |-> calculate_distance(cs[cluster_id], point, dim)]
    IN CHOOSE c \in Ids(k) :
           /\ \A b \in Ids(k) : distance[c] <= distance[b]
           /\ \A b \in Ids(k) : b > c => distance[b] # distance[c]

\* distance.index(min(distance)): the first index holding the least distance.
find_best_cluster(k, point, cs, dim) ==
    LET distance == [cluster_id \in Ids(k) |-> calculate_distance(cs[cluster_id], point, dim)]
        least == CHOOSE d \in {distance[c] : c \in Ids(k)} :
                     \A c \in Ids(k) : d <= distance[c]
    IN CHOOSE c \in Ids(k) :
           /\ distance[c] = least
           /\ \A b \in Ids(k) : b < c => distance[b] # least

\* The coordinate-wise mean of a non-empty list of points.
mid_point(points, dim) ==
    Centroid([i \in 1 .. dim |->
        (SumOver([n \in 1 .. Len(points) |-> Num(points[n][i])], 1 .. Len(points)))
            \div Len(points)])

\* rand_point: randrange(len(points)) may return any index, each call anew.
rand_point_draws(n, k) == [1 .. k -> 1 .. n]

\* Line 49 with the first point's cluster for every point.
ClusterAllocate_first(points, k, cs, dim) ==
    [n \in 1 .. Len(points) |-> find_best_cluster(k, points[1], cs, dim)]

\* Line 49: the cluster id of every point, by position.
ClusterAllocate(points, k, cs, dim) ==
    [n \in 1 .. Len(points) |-> find_best_cluster(k, points[n], cs, dim)]

\* Line 51 with <= written for ==.
AllocatedPoints_upto(points, alloc, cluster_id) ==
    LET RECURSIVE Take(_)
        Take(n) ==
            IF n = 0 THEN <<>>
            ELSE IF alloc[n] <= cluster_id THEN Append(Take(n - 1), points[n])
            ELSE Take(n - 1)
    IN Take(Len(points))

\* Line 51: the points allocated to cluster_id, in input order.
AllocatedPoints(points, alloc, cluster_id) ==
    LET RECURSIVE Take(_)
        Take(n) ==
            IF n = 0 THEN <<>>
            ELSE IF alloc[n] = cluster_id THEN Append(Take(n - 1), points[n])
            ELSE Take(n - 1)
    IN Take(Len(points))

\* Lines 52-55 with the centre of an empty cluster set to another input point in
\* every pass.
ClusterUpdate_reseed(cs, allocated_points, cluster_id, dim) ==
    IF Len(allocated_points) = 0
    THEN AsCentroid(points_list[((iteration + 1) % Len(points_list)) + 1])
    ELSE mid_point(allocated_points, dim)

\* Lines 52-55: the centre of cluster_id after the update.
ClusterUpdate(cs, allocated_points, cluster_id, dim) ==
    IF Len(allocated_points) = 0 THEN cs[cluster_id]
    ELSE mid_point(allocated_points, dim)

\* Line 58: the entry written for one cluster on the final iteration.
Entry(center, allocated_points) ==
    [center |-> center, allocated_points |-> allocated_points]

\* Line 36 off by one.
ClustersExceedPoints_late(k, n) == k > n + 1

\* Line 36: the size check.
ClustersExceedPoints(k, n) == k > n

\* Line 47 stopping one pass early.
ClusterLoopTest_short(it, m) == it < m - 1

\* Line 47: the loop test.
ClusterLoopTest(it, m) == it < m

\* Line 57 true in every pass.
FinalIteration_every(it, m) == it <= m - 1

\* Line 57: the test that guards the write of the result.
FinalIteration(it, m) == it = m - 1

\* Lines 49-55: the assignment, the members and the updated centres of one pass.
ClusterPass(points, k, cs, dim) ==
    LET alloc == ClusterAllocate(points, k, cs, dim)
        members == [c \in Ids(k) |-> AllocatedPoints(points, alloc, c)]
    IN [alloc |-> alloc,
        members |-> members,
        centers |-> [c \in Ids(k) |-> ClusterUpdate(cs, members[c], c, dim)]]

\* Line 75: point[i] is read for every i in range(dimension), and no further: a point
\* with fewer coordinates than points_list[0] has no point[i] for some i.
ShortPoint(points, dim) == \E n \in DOMAIN points : Len(points[n]) < dim

\* ------------------------------------------------- clustering.py, actions

\* Lines 36-46: the size check, the dimension, the initial centres.
cluster_enter(a) ==
    /\ UNCHANGED <<random_vars, call_vars, heap_vars>>
    /\ fn' = "cluster"
    /\ points_list' = a.points_list
    /\ Max_iterations' = a.Max_iterations
    /\ clusters' = a.clusters
    /\ output_print' = a.output_print
    /\ UNCHANGED <<dtype, nan_cast, iteration, allocated_cluster, clusters_information,
                   returned, printed>>
    /\ \/ /\ ClustersExceedPoints(a.clusters, Len(a.points_list))
          /\ Raise("ValueError", 37)
          /\ UNCHANGED <<dimension, picks, centers>>
       \/ /\ ~ClustersExceedPoints(a.clusters, Len(a.points_list))
          /\ Len(a.points_list) = 0
          /\ Raise("IndexError", 40)
          /\ UNCHANGED <<dimension, picks, centers>>
       \/ /\ ~ClustersExceedPoints(a.clusters, Len(a.points_list))
          /\ Len(a.points_list) > 0
          /\ dimension' = Len(a.points_list[1])
          /\ \E draw \in rand_point_draws(Len(a.points_list), a.clusters) :
                /\ picks' = draw
                /\ centers' = [c \in Ids(a.clusters) |-> AsCentroid(a.points_list[draw[c + 1]])]
          /\ pc' = "loop"
          /\ UNCHANGED <<raised, raise_line>>

\* Lines 47-59: one pass of the while loop.
cluster_iterate ==
    /\ UNCHANGED <<random_vars, call_vars, heap_vars>>
    /\ pc = "loop"
    /\ fn = "cluster"
    /\ ClusterLoopTest(iteration, Max_iterations)
    /\ UNCHANGED <<fn, args, dtype, nan_cast, dimension, picks, returned, printed>>
    /\ \/ /\ clusters <= 0
          /\ Raise("ValueError", 70)
          /\ UNCHANGED <<centers, iteration, allocated_cluster, clusters_information>>
       \/ /\ clusters > 0
          /\ ~ShortPoint(points_list, dimension)
          /\ LET pass == ClusterPass(points_list, clusters, centers, dimension)
             IN /\ allocated_cluster' = pass.alloc
                /\ centers' = pass.centers
                /\ clusters_information' =
                       IF FinalIteration(iteration, Max_iterations)
                       THEN [c \in Ids(clusters) |-> Entry(pass.centers[c], pass.members[c])]
                       ELSE clusters_information
          /\ iteration' = iteration + 1
          /\ UNCHANGED <<pc, raised, raise_line>>

\* print_points, lines 91-97: dic['centers'] is read from an entry whose keys are
\* 'center' and 'allocated_points'.
PrintPointsRaises(info) == DOMAIN info # {}

\* Lines 60-63: the loop has ended.
cluster_finish ==
    /\ UNCHANGED <<random_vars, call_vars, heap_vars>>
    /\ pc = "loop"
    /\ fn = "cluster"
    /\ ~ClusterLoopTest(iteration, Max_iterations)
    /\ UNCHANGED <<fn, args, dtype, nan_cast, dimension, picks, centers, iteration,
                   allocated_cluster, clusters_information, printed>>
    /\ \/ /\ output_print
          /\ PrintPointsRaises(clusters_information)
          /\ Raise("KeyError", 94)
          /\ UNCHANGED returned
       \/ /\ output_print
          /\ ~PrintPointsRaises(clusters_information)
          /\ pc' = "done"
          /\ returned' = "None"
          /\ UNCHANGED <<raised, raise_line>>
       \/ /\ ~output_print
          /\ pc' = "done"
          /\ returned' = "dict"
          /\ UNCHANGED <<raised, raise_line>>

\* ------------------------------------------- clustering_numpy.py, operators

\* np.random.choice(points_number, size=clusters, replace=False): any k distinct
\* indices, in any order.
np_random_choice(n, k) ==
    {draw \in [1 .. k -> 1 .. n] : \A i, j \in 1 .. k : i # j => draw[i] # draw[j]}

\* The largest coordinate any input holds.
MaxCoordAll ==
    LET held == {ScenarioPoints[n][i] : n \in DOMAIN ScenarioPoints, i \in 1 .. 2}
                    \cup {MaxCoord}
    IN CHOOSE x \in held : \A y \in held : y <= x

\* int64's least value, which x86-64 stores for NaN: modelled by a coordinate so far
\* below every input that a centre holding it is farther from every point than any
\* centre holding input-range coordinates.
Int64Min == Num(-(3 * (MaxCoordAll + 1)))

\* Storing NaN in an int64 array is undefined in C: the builds in use store the
\* least int64 (x86-64) or 0 (AArch64).
NanCastOutcomes == {Int64Min, Num(0)}

NaNCentroid(dim) == [nan |-> TRUE, at |-> [i \in 1 .. dim |-> 0]]

\* np.linalg.norm(points - mean_point[:, None], axis=2)[c][n], squared; the norm to
\* a NaN centre is NaN.
NormIsNaN(cs, c) == cs[c].nan

\* np.argmin over axis 0: the first NaN if the column holds one, else the first
\* least value.
Calculate_index(points, mean_point) ==
    LET K == DOMAIN mean_point
        dim == Len(points[1])
        norm(c, n) == calculate_distance(mean_point[c], points[n], dim)
        argmin(n) ==
            IF \E c \in K : NormIsNaN(mean_point, c)
            THEN CHOOSE c \in K :
                     /\ NormIsNaN(mean_point, c)
                     /\ \A b \in K : b < c => ~NormIsNaN(mean_point, b)
            ELSE CHOOSE c \in K :
                     /\ \A b \in K : norm(c, n) <= norm(b, n)
                     /\ \A b \in K : b < c => norm(b, n) # norm(c, n)
    IN [n \in 1 .. Len(points) |-> argmin(n)]

\* np.mean(alloc_ps, axis=0): NaN in every coordinate for an empty selection.
np_mean(alloc_ps, dim) ==
    IF Len(alloc_ps) = 0 THEN NaNCentroid(dim) ELSE mid_point(alloc_ps, dim)

\* centers[i] = new_mean: the row is converted to the element type of centers.
StoreInCenters(new_mean, dt, nancast, dim) ==
    IF dt = "float64" THEN new_mean
    ELSE IF new_mean.nan THEN Centroid([i \in 1 .. dim |-> nancast])
    ELSE Centroid([i \in 1 .. dim |-> TruncToInt(new_mean.at[i])])

\* Lines 49-52: the centre of cluster i after the update.
NumpyUpdate(alloc_ps, dt, nancast, dim) ==
    StoreInCenters(np_mean(alloc_ps, dim), dt, nancast, dim)

\* Line 34: the size check.
NumpyClustersExceedPoints(k, n) == k > n

\* Line 44: the loop test.
NumpyLoopTest(it, m) == it < m

\* Line 54: the test that guards the write of the result.
NumpyFinalIteration(it, m) == it = m - 1

\* Lines 46-52: the assignment, the members and the updated centres of one pass.
NumpyPass(points, k, cs, dt, nancast, dim) ==
    LET alloc == Calculate_index(points, cs)
        alloc_ps == [i \in Ids(k) |-> AllocatedPoints(points, alloc, i)]
    IN [alloc |-> alloc,
        members |-> alloc_ps,
        centers |-> [i \in Ids(k) |-> NumpyUpdate(alloc_ps[i], dt, nancast, dim)]]

\* --------------------------------------------- clustering_numpy.py, actions

\* Lines 33-43. np.array(points_list) is int64 when every coordinate is a Python
\* int and float64 when they are floats.
cluster_numpy_enter(a, dt, nancast) ==
    /\ UNCHANGED <<random_vars, call_vars, heap_vars>>
    /\ fn' = "cluster_numpy"
    /\ points_list' = a.points_list
    /\ Max_iterations' = a.Max_iterations
    /\ clusters' = a.clusters
    /\ output_print' = a.output_print
    /\ UNCHANGED <<iteration, allocated_cluster, clusters_information, returned, printed>>
    /\ \/ /\ NumpyClustersExceedPoints(a.clusters, Len(a.points_list))
          /\ Raise("ValueError", 35)
          /\ UNCHANGED <<dimension, dtype, nan_cast, picks, centers>>
       \/ /\ ~NumpyClustersExceedPoints(a.clusters, Len(a.points_list))
          /\ Len(a.points_list) = 0
          /\ Raise("IndexError", 37)
          /\ UNCHANGED <<dimension, dtype, nan_cast, picks, centers>>
       \/ /\ ~NumpyClustersExceedPoints(a.clusters, Len(a.points_list))
          /\ a.clusters < 0
          /\ Len(a.points_list) > 0
          /\ dimension' = Len(a.points_list[1])
          /\ dtype' = dt
          /\ nan_cast' = nancast
          /\ Raise("ValueError", 41)
          /\ UNCHANGED <<picks, centers>>
       \/ /\ ~NumpyClustersExceedPoints(a.clusters, Len(a.points_list))
          /\ a.clusters >= 0
          /\ Len(a.points_list) > 0
          /\ dimension' = Len(a.points_list[1])
          /\ dtype' = dt
          /\ nan_cast' = nancast
          /\ \E draw \in np_random_choice(Len(a.points_list), a.clusters) :
                /\ picks' = draw
                /\ centers' = [c \in Ids(a.clusters) |-> AsCentroid(a.points_list[draw[c + 1]])]
          /\ pc' = "loop"
          /\ UNCHANGED <<raised, raise_line>>

\* Lines 44-58: one pass of the while loop.
cluster_numpy_iterate ==
    /\ UNCHANGED <<random_vars, call_vars, heap_vars>>
    /\ pc = "loop"
    /\ fn = "cluster_numpy"
    /\ NumpyLoopTest(iteration, Max_iterations)
    /\ UNCHANGED <<fn, args, dtype, nan_cast, dimension, picks, returned, printed>>
    /\ \/ /\ clusters = 0
          /\ Raise("ValueError", 78)
          /\ UNCHANGED <<centers, iteration, allocated_cluster, clusters_information>>
       \/ /\ clusters > 0
          /\ LET pass == NumpyPass(points_list, clusters, centers, dtype, nan_cast, dimension)
             IN /\ allocated_cluster' = pass.alloc
                /\ centers' = pass.centers
                /\ clusters_information' =
                       IF NumpyFinalIteration(iteration, Max_iterations)
                       THEN [i \in Ids(clusters) |-> Entry(pass.centers[i], pass.members[i])]
                       ELSE clusters_information
          /\ iteration' = iteration + 1
          /\ UNCHANGED <<pc, raised, raise_line>>

\* Lines 59-62: the loop has ended; print_points (lines 64-73) reads dic['centers'].
cluster_numpy_finish ==
    /\ UNCHANGED <<random_vars, call_vars, heap_vars>>
    /\ pc = "loop"
    /\ fn = "cluster_numpy"
    /\ ~NumpyLoopTest(iteration, Max_iterations)
    /\ UNCHANGED <<fn, args, dtype, nan_cast, dimension, picks, centers, iteration,
                   allocated_cluster, clusters_information, printed>>
    /\ \/ /\ output_print
          /\ PrintPointsRaises(clusters_information)
          /\ Raise("KeyError", 67)
          /\ UNCHANGED returned
       \/ /\ output_print
          /\ ~PrintPointsRaises(clusters_information)
          /\ pc' = "done"
          /\ returned' = "None"
          /\ UNCHANGED <<raised, raise_line>>
       \/ /\ ~output_print
          /\ pc' = "done"
          /\ returned' = "dict"
          /\ UNCHANGED <<raised, raise_line>>

\* The element types np.array gives the inputs, and what each build stores for NaN.
Dtypes == {"int64", "float64"}

NanCasts(dt) == IF dt = "int64" THEN NanCastOutcomes ELSE {Num(0)}

\* A caller calls cluster with any arguments.
cluster_call ==
    /\ pc = "idle"
    /\ \E a \in Arguments : cluster_enter(a)

\* A caller calls cluster_numpy with any arguments, of either element type, on either
\* build.
cluster_numpy_call ==
    /\ pc = "idle"
    /\ \E a \in Arguments : \E dt \in Dtypes : \E nancast \in NanCasts(dt) :
           cluster_numpy_enter(a, dt, nancast)

Next ==
    \/ cluster_call
    \/ cluster_iterate
    \/ cluster_finish
    \/ cluster_numpy_call
    \/ cluster_numpy_iterate
    \/ cluster_numpy_finish

Spec == Init /\ [][Next]_vars

\* ------------------------------------ cluster on points of unequal lengths
MaxDim == 2

\* Points of 1 to MaxDim coordinates.
RaggedPointValues == UNION {[1 .. d -> 0 .. MaxCoord] : d \in 1 .. MaxDim}

RaggedPointLists == UNION {[1 .. n -> RaggedPointValues] : n \in 0 .. MaxN}

RaggedArguments ==
    [points_list : RaggedPointLists, Max_iterations : 0 .. 1,
     clusters : 0 .. MaxK, output_print : BOOLEAN]

\* A caller calls cluster with points of any lengths.
cluster_call_ragged ==
    /\ pc = "idle"
    /\ \E a \in RaggedArguments : cluster_enter(a)

\* Lines 49, 65-77: the list comprehension of line 49 raises IndexError at
\* center_point[i] - point[i] for the first point shorter than points_list[0];
\* allocated_cluster is not assigned.
cluster_iterate_IndexError ==
    /\ UNCHANGED <<random_vars, call_vars, heap_vars>>
    /\ pc = "loop"
    /\ fn = "cluster"
    /\ ClusterLoopTest(iteration, Max_iterations)
    /\ clusters > 0
    /\ ShortPoint(points_list, dimension)
    /\ Raise("IndexError", 75)
    /\ UNCHANGED <<fn, args, dtype, nan_cast, dimension, picks, returned, printed,
                   centers, iteration, allocated_cluster, clusters_information>>

NextRagged ==
    \/ cluster_call_ragged
    \/ cluster_iterate
    \/ cluster_iterate_IndexError
    \/ cluster_finish

SpecRagged == Init /\ [][NextRagged]_vars

\* The result cluster returns for the initial centres cs0: Max_iterations - 1
\* passes, then the final pass, whose centres and members are written (lines 47-59).
\* The centres cs, every coordinate computed (a function constructor is evaluated
\* anew at each application otherwise).
Settled(cs) ==
    [c \in DOMAIN cs |-> [nan |-> cs[c].nan, at |-> cs[c].at @@ <<>>]] @@ <<>>

RECURSIVE ClusterCentersAfter(_, _, _, _, _)
ClusterCentersAfter(points, k, cs0, dim, t) ==
    IF t <= 0 THEN cs0
    ELSE LET before == Settled(ClusterCentersAfter(points, k, cs0, dim, t - 1))
         IN ClusterPass(points, k, before, dim).centers

ClusterResult(points, k, m, cs0, dim) ==
    LET before == Settled(ClusterCentersAfter(points, k, cs0, dim, m - 1))
        pass == ClusterPass(points, k, before, dim)
    IN [c \in Ids(k) |-> Entry(pass.centers[c], pass.members[c])]

\* --------------------------------- the caller's objects under a clustering call
\* An object is a record of its kind and its items: the ids of the objects a list of
\* points or of centres refers to, the coordinates (times Scale) of a point, the
\* rows of an ndarray.
Object(kind, items) == [kind |-> kind, items |-> items]

\* The kinds of object a caller's point is.
PointKinds == {"tuple", "list"}

\* The objects of a caller: the list at id 1, its points at the ids 2, 3, ...
CallerHeap(points, kind) ==
    <<Object("list", [n \in DOMAIN points |-> n + 1])>>
        \o [n \in DOMAIN points |-> Object(kind, [i \in DOMAIN points[n] |-> Num(points[n][i])])]

\* The coordinates of the object id as the caller wrote them.
PointAt(hp, id) == [i \in DOMAIN hp[id].items |-> hp[id].items[i] \div Scale]

\* The points a list object refers to, in order.
PointsOf(hp, list_id) == [n \in DOMAIN hp[list_id].items |-> PointAt(hp, hp[list_id].items[n])]

\* The rows of an ndarray as points.
RowsOf(hp, array_id) ==
    [n \in DOMAIN hp[array_id].items |->
        [i \in DOMAIN hp[array_id].items[n].at |-> hp[array_id].items[n].at[i] \div Scale]]

\* The centres a list of centres refers to, by cluster id.
CentersOf(hp, centers_id) ==
    [c \in Ids(Len(hp[centers_id].items)) |-> Centroid(hp[hp[centers_id].items[c + 1]].items)]

\* centers[cluster_id] = ... writing the coordinates into the object the slot refers to.
store_center_in_place(hp, centers_id, cluster_id, center) ==
    [hp EXCEPT ![hp[centers_id].items[cluster_id + 1]].items = center.at]

\* clustering.py:55, centers[cluster_id] = mid_point(...): mid_point returns a new
\* tuple (line 84), and the slot of the list centers is bound to it.
store_center(hp, centers_id, cluster_id, center) ==
    [Append(hp, Object("tuple", center.at))
        EXCEPT ![centers_id].items[cluster_id + 1] = Len(hp) + 1]

\* Lines 50-55: the heap after the updates of the clusters cluster_id .. k-1.
RECURSIVE store_centers(_, _, _, _, _)
store_centers(hp, centers_id, pass, cluster_id, k) ==
    IF cluster_id >= k THEN hp
    ELSE IF Len(pass.members[cluster_id]) = 0
    THEN store_centers(hp, centers_id, pass, cluster_id + 1, k)
    ELSE store_centers(store_center(hp, centers_id, cluster_id, pass.centers[cluster_id]),
                       centers_id, pass, cluster_id + 1, k)

\* The ids of the points of a list that a pass allocated to cluster_id.
AllocatedIds(hp, list_id, alloc, cluster_id) ==
    AllocatedPoints(hp[list_id].items, alloc, cluster_id)

\* A caller calls cluster: lines 36-46.  rand_point returns points[randrange(...)],
\* the caller's object itself, so centers is a new list of the caller's points.
heap_cluster_call ==
    /\ frame.pc = "idle"
    /\ \E k \in 1 .. MaxK : \E m \in 0 .. MaxM :
          IF ClustersExceedPoints(k, Len(heap[1].items))
          THEN /\ frame' = [pc |-> "raised", fn |-> "cluster", before |-> heap]
               /\ heap' = heap
          ELSE \E draw \in rand_point_draws(Len(heap[1].items), k) :
                  /\ heap' = Append(heap, Object("list", [c \in 1 .. k |-> heap[1].items[draw[c]]]))
                  /\ frame' = [pc |-> "loop", fn |-> "cluster", before |-> heap,
                               points_list |-> 1, centers |-> Len(heap) + 1,
                               Max_iterations |-> m, clusters |-> k,
                               dimension |-> Len(heap[2].items), iteration |-> 0,
                               clusters_information |-> <<>>]
    /\ UNCHANGED <<cluster_vars, random_vars, call_vars>>

\* Lines 47-59: one pass of cluster.
heap_cluster_iterate ==
    /\ frame.pc = "loop"
    /\ frame.fn = "cluster"
    /\ ClusterLoopTest(frame.iteration, frame.Max_iterations)
    /\ LET pass == ClusterPass(PointsOf(heap, frame.points_list), frame.clusters,
                               CentersOf(heap, frame.centers), frame.dimension)
           after == store_centers(heap, frame.centers, pass, 0, frame.clusters)
       IN /\ heap' = after
          /\ frame' = [frame EXCEPT
                 !.iteration = @ + 1,
                 !.clusters_information =
                     IF FinalIteration(frame.iteration, frame.Max_iterations)
                     THEN [c \in Ids(frame.clusters) |->
                              Entry(after[frame.centers].items[c + 1],
                                    AllocatedIds(heap, frame.points_list, pass.alloc, c))]
                     ELSE @]
    /\ UNCHANGED <<cluster_vars, random_vars, call_vars>>

\* A caller calls cluster_numpy: lines 33-41.  np.array(points_list) is a new array
\* of the coordinates, and indexing it with the array of drawn positions is a new
\* array again.
heap_cluster_numpy_call ==
    /\ frame.pc = "idle"
    /\ \E k \in 1 .. MaxK : \E m \in 0 .. MaxM : \E dt \in Dtypes : \E nancast \in NanCasts(dt) :
          IF NumpyClustersExceedPoints(k, Len(heap[1].items))
          THEN /\ frame' = [pc |-> "raised", fn |-> "cluster_numpy", before |-> heap]
               /\ heap' = heap
          ELSE \E draw \in np_random_choice(Len(heap[1].items), k) :
                  LET points == PointsOf(heap, 1)
                      array == Object("ndarray", [n \in DOMAIN points |-> AsCentroid(points[n])])
                  IN /\ heap' = heap \o <<array,
                                          Object("ndarray", [c \in 1 .. k |-> array.items[draw[c]]])>>
                     /\ frame' = [pc |-> "loop", fn |-> "cluster_numpy", before |-> heap,
                                  points_list |-> Len(heap) + 1, centers |-> Len(heap) + 2,
                                  Max_iterations |-> m, clusters |-> k,
                                  dimension |-> Len(heap[2].items), iteration |-> 0,
                                  dtype |-> dt, nan_cast |-> nancast,
                                  clusters_information |-> <<>>]
    /\ UNCHANGED <<cluster_vars, random_vars, call_vars>>

\* Lines 44-57: one pass of cluster_numpy; centers[i] = new_mean writes the row i of
\* the array centers.
heap_cluster_numpy_iterate ==
    /\ frame.pc = "loop"
    /\ frame.fn = "cluster_numpy"
    /\ NumpyLoopTest(frame.iteration, frame.Max_iterations)
    /\ LET cs == [c \in Ids(frame.clusters) |-> heap[frame.centers].items[c + 1]]
           pass == NumpyPass(RowsOf(heap, frame.points_list), frame.clusters, cs,
                             frame.dtype, frame.nan_cast, frame.dimension)
       IN /\ heap' = [heap EXCEPT ![frame.centers].items =
                         [c \in 1 .. frame.clusters |-> pass.centers[c - 1]]]
          /\ frame' = [frame EXCEPT
                 !.iteration = @ + 1,
                 !.clusters_information =
                     IF NumpyFinalIteration(frame.iteration, frame.Max_iterations)
                     THEN [c \in Ids(frame.clusters) |->
                              Entry(pass.centers[c], pass.members[c])]
                     ELSE @]
    /\ UNCHANGED <<cluster_vars, random_vars, call_vars>>

\* The loop has ended: the call returns clusters_information.
heap_return ==
    /\ frame.pc = "loop"
    /\ IF frame.fn = "cluster"
       THEN ~ClusterLoopTest(frame.iteration, frame.Max_iterations)
       ELSE ~NumpyLoopTest(frame.iteration, frame.Max_iterations)
    /\ frame' = [frame EXCEPT !.pc = "done"]
    /\ UNCHANGED <<heap, cluster_vars, random_vars, call_vars>>

\* A caller has made a list of at least one point, of tuples or of lists.
InitHeap ==
    /\ cluster_idle
    /\ random_idle
    /\ call_idle
    /\ \E points \in PointLists : \E kind \in PointKinds :
          /\ Len(points) > 0
          /\ heap = CallerHeap(points, kind)
    /\ frame = [pc |-> "idle"]

NextHeap ==
    \/ heap_cluster_call
    \/ heap_cluster_iterate
    \/ heap_cluster_numpy_call
    \/ heap_cluster_numpy_iterate
    \/ heap_return

SpecHeap == InitHeap /\ [][NextHeap]_vars

\* ------------------------- calls in separate threads, the global generators
\* rand_point (clustering.py:86-89) draws from the generator of the random module,
\* cluster_numpy (clustering_numpy.py:41) from the generator of numpy.random: one
\* generator of each per process, advanced by every draw of every thread.
CallIds == {1, 2}

\* The draws two calls can make of one generator.
StreamLen == 2 * Max2(MaxK, MaxN - 1)

\* The values a generator yields are fixed by its seeding: any values.
Streams == [1 .. StreamLen -> 0 .. (MaxN - 1)]

\* randrange(n): the next value of the generator at position pos, in 0..n-1.
randrange(strm, pos, n) == strm[pos + 1] % n

\* numpy's shuffle of arr[0..i]: for i downto 1, swap arr[i] with arr[j], j drawn in
\* 0..i.
RECURSIVE shuffle(_, _, _, _)
shuffle(arr, strm, pos, i) ==
    IF i < 1 THEN arr
    ELSE LET j == randrange(strm, pos, i + 1)
             swapped == [x \in DOMAIN arr |->
                            IF x = i THEN arr[j] ELSE IF x = j THEN arr[i] ELSE arr[x]]
         IN shuffle(swapped @@ <<>>, strm, pos + 1, i - 1)

\* np.random.choice(n, size=k, replace=False): the first k of a shuffled arange(n),
\* as positions of points_list.
choice_from(strm, pos, n, k) ==
    LET perm == shuffle([x \in 0 .. (n - 1) |-> x], strm, pos, n - 1)
    IN [c \in 1 .. k |-> perm[c - 1] + 1]

\* The result cluster_numpy returns for the initial centres cs0 (lines 44-58).
RECURSIVE NumpyCentersAfter(_, _, _, _, _, _, _)
NumpyCentersAfter(points, k, cs0, dt, nancast, dim, t) ==
    IF t <= 0 THEN cs0
    ELSE LET before == NumpyCentersAfter(points, k, cs0, dt, nancast, dim, t - 1)
         IN NumpyPass(points, k, [c \in Ids(k) |-> before[c]] @@ <<>>, dt, nancast, dim).centers

NumpyResult(points, k, m, cs0, dt, nancast, dim) ==
    LET before == NumpyCentersAfter(points, k, cs0, dt, nancast, dim, m - 1)
        pass == NumpyPass(points, k, [c \in Ids(k) |-> before[c]] @@ <<>>, dt, nancast, dim)
    IN [i \in Ids(k) |-> Entry(pass.centers[i], pass.members[i])]

\* The lists the threads pass: one to MaxN distinct points, of float coordinates.
CallPointLists == {[n \in 1 .. len |-> <<n - 1>>] : len \in 1 .. MaxN}

\* seed: "none" when the caller passes no seed keyword.
Seeds == {"none", "s1"}

CallArguments ==
    [fn : {"cluster", "cluster_numpy"}, points_list : CallPointLists,
     Max_iterations : {1}, clusters : 1 .. MaxK, seed : Seeds]

IdleCall ==
    [pc |-> "idle", fn |-> "none", points_list |-> <<>>, Max_iterations |-> 0,
     clusters |-> 0, seed |-> "none", picks |-> <<>>, raised |-> "none",
     result |-> <<>>]

InitCalls ==
    /\ cluster_idle
    /\ heap_idle
    /\ call_idle
    /\ random_state = [g \in Generators |-> 0]
    /\ stream \in Streams
    /\ calls = [i \in CallIds |-> IdleCall]

\* The parameters of both functions (clustering.py:5, clustering_numpy.py:4): a seed
\* keyword is none of them.
AcceptsSeed == FALSE

\* Thread i calls a clustering function: lines 5 and 36-40 (4 and 33-37).
thread_call(i, a) ==
    /\ calls[i].pc = "idle"
    /\ LET entered == [IdleCall EXCEPT !.fn = a.fn, !.points_list = a.points_list,
                                       !.Max_iterations = a.Max_iterations,
                                       !.clusters = a.clusters, !.seed = a.seed]
       IN calls' = [calls EXCEPT ![i] =
              IF a.seed # "none" /\ ~AcceptsSeed
              THEN [entered EXCEPT !.pc = "raised", !.raised = "TypeError"]
              ELSE IF ClustersExceedPoints(a.clusters, Len(a.points_list))
              THEN [entered EXCEPT !.pc = "raised", !.raised = "ValueError"]
              ELSE [entered EXCEPT !.pc = "draw"]]
    /\ UNCHANGED <<random_state, stream, cluster_vars, call_vars, heap_vars>>

\* Thread i runs one rand_point(points_list) of lines 43-44.
thread_rand_point(i) ==
    /\ calls[i].pc = "draw"
    /\ calls[i].fn = "cluster"
    /\ LET drawn == randrange(stream, random_state["random"], Len(calls[i].points_list)) + 1
           all == Len(calls[i].picks) + 1 = calls[i].clusters
       IN calls' = [calls EXCEPT ![i].picks = Append(@, drawn),
                                 ![i].pc = IF all THEN "loop" ELSE "draw"]
    /\ random_state' = [random_state EXCEPT !["random"] = @ + 1]
    /\ UNCHANGED <<stream, cluster_vars, call_vars, heap_vars>>

\* Thread i runs the np.random.choice of line 41.
thread_choice(i) ==
    /\ calls[i].pc = "draw"
    /\ calls[i].fn = "cluster_numpy"
    /\ calls' = [calls EXCEPT
           ![i].picks = choice_from(stream, random_state["np.random"],
                                    Len(calls[i].points_list), calls[i].clusters),
           ![i].pc = "loop"]
    /\ random_state' = [random_state EXCEPT !["np.random"] = @ + Len(calls[i].points_list) - 1]
    /\ UNCHANGED <<stream, cluster_vars, call_vars, heap_vars>>

\* The result of a call on points from the drawn positions drawn.
CallResult(c, drawn) ==
    LET cs0 == [k \in Ids(c.clusters) |-> AsCentroid(c.points_list[drawn[k + 1]])]
        dim == Len(c.points_list[1])
    IN IF c.fn = "cluster"
       THEN ClusterResult(c.points_list, c.clusters, c.Max_iterations, cs0, dim)
       ELSE NumpyResult(c.points_list, c.clusters, c.Max_iterations, cs0, "float64", Num(0), dim)

\* Thread i runs its loop, which reads and writes locals only, and returns.
thread_loop(i) ==
    /\ calls[i].pc = "loop"
    /\ calls' = [calls EXCEPT ![i].result = CallResult(calls[i], calls[i].picks),
                              ![i].pc = "done"]
    /\ UNCHANGED <<random_state, stream, cluster_vars, call_vars, heap_vars>>

NextCalls ==
    \/ \E i \in CallIds : \E a \in CallArguments : thread_call(i, a)
    \/ \E i \in CallIds : thread_rand_point(i)
    \/ \E i \in CallIds : thread_choice(i)
    \/ \E i \in CallIds : thread_loop(i)

SpecCalls == InitCalls /\ [][NextCalls]_vars

\* ------------------------------------------------- tracks.py, SingleTrack
\* A SingleTrack is the record of its attributes; cc, road and terrain are the
\* sequences of the characters of the strings.
SingleTrack(start, cc, road, terrain, elevation) ==
    [start |-> start, cc |-> cc, road |-> road, terrain |-> terrain,
     elevation |-> elevation]

\* Lengths are kept as multiples of 1/LengthScale km.
LengthScale == 4

\* sqrt(1 + (height_diff/1000)**2), tracks.py:388, 439, 470: the multiple d of
\* 1/LengthScale with (d/LengthScale)^2 = 1 + (height_diff/1000)^2.  The elevations
\* the model draws make every such root rational.
segment_length(height_diff) ==
    CHOOSE d \in 0 .. (3 * LengthScale) :
        d * d * 1000 * 1000
            = LengthScale * LengthScale * (1000 * 1000 + height_diff * height_diff)

\* The positions of the segments of a track: one per consecutive elevation pair.
Segments(track) == 1 .. (Len(track.elevation) - 1)

height_diff(track, i) == track.elevation[i + 1] - track.elevation[i]

\* distance(), tracks.py:432-441, in 1/LengthScale km.
distance(track) ==
    SumOver([i \in Segments(track) |-> segment_length(height_diff(track, i))],
            Segments(track))

\* road_speed, tracks.py:443.
road_speed == [r |-> 30, l |-> 80, m |-> 120]

Lcm2(a, b) == (a * b) \div Gcd(a, b)

\* Times are kept as multiples of 1/(LengthScale * SpeedScale) h.
SpeedScale == Lcm2(road_speed.r, Lcm2(road_speed.l, road_speed.m))

\* time(), tracks.py:463-479.
time(track) ==
    SumOver([i \in Segments(track) |->
                segment_length(height_diff(track, i))
                    * (SpeedScale \div road_speed[track.road[i]])],
            Segments(track))

\* The consumption factors of co2, tracks.py:351-353, in hundredths.
road_cons == [r |-> 140, l |-> 100, m |-> 125]

terrain_cons == [d |-> 250, g |-> 125, p |-> 100]

slope_cons == [k \in {-8, -4, 0, 4, 8, 12} |->
                  CASE k = -8 -> 16 [] k = -4 -> 45 [] k = 0 -> 100
                    [] k = 4 -> 130 [] k = 8 -> 235 [] k = 12 -> 290]

\* Lines 400-411 with the bounds -6 and -2 of the second bucket both open.
slope_factor_open(h) ==
    IF h < -60 THEN slope_cons[-8]
    ELSE IF h > -60 /\ h < -20 THEN slope_cons[-4]
    ELSE IF h >= -20 /\ h <= 20 THEN slope_cons[0]
    ELSE IF h > 20 /\ h <= 60 THEN slope_cons[4]
    ELSE IF h > 60 /\ h <= 100 THEN slope_cons[8]
    ELSE slope_cons[12]

\* Lines 389, 400-411: the factor of the slope height_diff/10, compared without the
\* division.
slope_factor(h) ==
    IF h < -60 THEN slope_cons[-8]
    ELSE IF h >= -60 /\ h < -20 THEN slope_cons[-4]
    ELSE IF h >= -20 /\ h <= 20 THEN slope_cons[0]
    ELSE IF h > 20 /\ h <= 60 THEN slope_cons[4]
    ELSE IF h > 60 /\ h <= 100 THEN slope_cons[8]
    ELSE slope_cons[12]

\* co2(), tracks.py:381-415, in multiples of
\* base_consumption * co2_per_litre / 100 / (100^3 * LengthScale) kg.
co2(track) ==
    SumOver([i \in Segments(track) |->
                terrain_cons[track.terrain[i]] * road_cons[track.road[i]]
                    * slope_factor(height_diff(track, i))
                    * segment_length(height_diff(track, i))],
            Segments(track))

\* ------------------------------------------------------ tracks.py, Tracks
\* np.argmin of a list of numbers, none of them NaN, with <= written for <: the last
\* position of the least value.
np_argmin_last(values) ==
    CHOOSE i \in 0 .. (Len(values) - 1) :
        /\ \A j \in 0 .. (Len(values) - 1) : values[i + 1] <= values[j + 1]
        /\ \A j \in 0 .. (Len(values) - 1) : j > i => values[j + 1] # values[i + 1]

\* np.argmin of a list of numbers, none of them NaN: the first position, from 0, of
\* the least value.
np_argmin(values) ==
    CHOOSE i \in 0 .. (Len(values) - 1) :
        /\ \A j \in 0 .. (Len(values) - 1) : values[i + 1] <= values[j + 1]
        /\ \A j \in 0 .. (Len(values) - 1) : j < i => values[j + 1] # values[i + 1]

\* The most tracks a Tracks object stores.
MaxTracks == 2

\* Elevations 750 m apart over 1 km make segments of exactly 1.25 km.
Elevations == {0, 750}

Roads == {"r", "l", "m"}

Terrains == {"p", "g", "d"}

\* The tracks stored: the track of no step, and tracks of one step of every road,
\* terrain and slope.
StoredTracks ==
    {SingleTrack(<<0, 0>>, <<>>, <<>>, <<>>, <<0>>)}
    \cup {SingleTrack(<<0, 0>>, <<"1">>, <<rd>>, <<tr>>, <<e1, e2>>) :
             rd \in Roads, tr \in Terrains, e1 \in Elevations, e2 \in Elevations}

TracksObjects ==
    UNION {[1 .. n -> StoredTracks] : n \in 0 .. MaxTracks}

\* len(self), tracks.py:58-59.
TracksLen(obj) == Len(obj)

\* The object at position i, from 0, of self.tracks.
Returned(obj, i) == [raised |-> "none", index |-> i, value |-> obj[i + 1]]

Raised(exc) == [raised |-> exc]

\* Lines 90-93, 121-124, 152-155: the track at the np.argmin of the measures.
least_track(obj, measures) ==
    IF TracksLen(obj) = 0 THEN Raised("AttributeError")
    ELSE Returned(obj, np_argmin(measures))

greenest_call ==
    /\ method.name = "none"
    /\ method' = [name |-> "greenest"]
    /\ outcome' = least_track(self, [n \in DOMAIN self |-> co2(self[n])])
    /\ UNCHANGED <<self, requests, files, cluster_vars, random_vars, heap_vars>>

fastest_call ==
    /\ method.name = "none"
    /\ method' = [name |-> "fastest"]
    /\ outcome' = least_track(self, [n \in DOMAIN self |-> time(self[n])])
    /\ UNCHANGED <<self, requests, files, cluster_vars, random_vars, heap_vars>>

shortest_call ==
    /\ method.name = "none"
    /\ method' = [name |-> "shortest"]
    /\ outcome' = least_track(self, [n \in DOMAIN self |-> distance(self[n])])
    /\ UNCHANGED <<self, requests, files, cluster_vars, random_vars, heap_vars>>

\* self.tracks[x]: a negative x counts from the end; IndexError outside -len..len-1.
list_item(obj, x) ==
    IF x >= Len(obj) \/ x < -Len(obj) THEN Raised("IndexError")
    ELSE IF x < 0 THEN Returned(obj, Len(obj) + x)
    ELSE Returned(obj, x)

\* get_track, tracks.py:221-225.
get_track(obj, x) ==
    IF TracksLen(obj) = 0 THEN Raised("AttributeError")
    ELSE IF x > TracksLen(obj) THEN Raised("ValueError")
    ELSE list_item(obj, x)

\* The integers a caller asks for.
TrackNumbers == (-(MaxTracks + 1)) .. (MaxTracks + 1)

get_track_call(x) ==
    /\ method.name = "none"
    /\ method' = [name |-> "get_track", x |-> x]
    /\ outcome' = get_track(self, x)
    /\ UNCHANGED <<self, requests, files, cluster_vars, random_vars, heap_vars>>

InitTracks ==
    /\ cluster_idle
    /\ heap_idle
    /\ random_idle
    /\ self \in TracksObjects
    /\ method = [name |-> "none"]
    /\ outcome = Raised("none")
    /\ requests = 0
    /\ files = 0

NextTracks ==
    \/ greenest_call
    \/ fastest_call
    \/ shortest_call
    \/ \E x \in TrackNumbers : get_track_call(x)

SpecTracks == InitTracks /\ [][NextTracks]_vars

\* ------------------------------- tracks.py, the loops of co2, time, distance
\* The loops over self.elevation, as the terms they add in the order they add them:
\* prev is <<>> for None and <<height>> after a height; index counts from 0.
\* A term of co2 is f_t, f_r, f_s and the height difference its distance is the root
\* of (line 413); co2(track) above is the sum of their values.
RECURSIVE co2_loop(_, _, _, _)
co2_loop(track, index, prev, terms) ==
    IF index >= Len(track.elevation) THEN terms
    ELSE LET height == track.elevation[index + 1]
         IN IF prev = <<>> THEN co2_loop(track, index + 1, <<height>>, terms)
            ELSE co2_loop(track, index + 1, <<height>>,
                          Append(terms,
                                 [f_t |-> terrain_cons[track.terrain[index]],
                                  f_r |-> road_cons[track.road[index]],
                                  f_s |-> slope_factor(height - prev[1]),
                                  height_diff |-> height - prev[1]]))

co2_terms(track) == co2_loop(track, 0, <<>>, <<>>)

\* Lines 432-441.
RECURSIVE distance_loop(_, _, _, _)
distance_loop(track, index, prev, terms) ==
    IF index >= Len(track.elevation) THEN terms
    ELSE LET height == track.elevation[index + 1]
         IN IF prev = <<>> THEN distance_loop(track, index + 1, <<height>>, terms)
            ELSE distance_loop(track, index + 1, <<height>>,
                               Append(terms, [height_diff |-> height - prev[1]]))

distance_terms(track) == distance_loop(track, 0, <<>>, <<>>)

\* Lines 463-479.
RECURSIVE time_loop(_, _, _, _)
time_loop(track, index, prev, terms) ==
    IF index >= Len(track.elevation) THEN terms
    ELSE LET height == track.elevation[index + 1]
         IN IF prev = <<>> THEN time_loop(track, index + 1, <<height>>, terms)
            ELSE time_loop(track, index + 1, <<height>>,
                           Append(terms, [height_diff |-> height - prev[1],
                                          speed |-> road_speed[track.road[index]]]))

time_terms(track) == time_loop(track, 0, <<>>, <<>>)

\* The most segments of a track whose measures are taken.
MaxSegments == 2

\* Height differences in m on both sides of every bound of a slope bucket.
HeightDiffs == {-61, -60, -21, -20, 0, 20, 21, 60, 61, 100, 101}

\* The elevations of a track that starts at 100 m and climbs by hs[1], hs[2], ...
RECURSIVE elevation_from(_, _)
elevation_from(height, hs) ==
    IF hs = <<>> THEN <<height>>
    ELSE <<height>> \o elevation_from(height + hs[1], Tail(hs))

\* The segments the measured tracks are made of: every height difference on every
\* road and terrain.
SegmentKinds ==
    [road : Roads, terrain : Terrains, height_diff : HeightDiffs]

\* The track that starts at 100 m and runs over the segments kinds[1], kinds[2], ...
MeasuredTrack(kinds) ==
    SingleTrack(<<1, 1>>, [i \in DOMAIN kinds |-> "1"],
                [i \in DOMAIN kinds |-> kinds[i].road],
                [i \in DOMAIN kinds |-> kinds[i].terrain],
                elevation_from(100, [i \in DOMAIN kinds |-> kinds[i].height_diff]))

co2_call ==
    /\ method.name = "none"
    /\ method' = [name |-> "co2"]
    /\ outcome' = [raised |-> "none", terms |-> co2_terms(self)]
    /\ UNCHANGED <<self, requests, files, cluster_vars, random_vars, heap_vars>>

time_call ==
    /\ method.name = "none"
    /\ method' = [name |-> "time"]
    /\ outcome' = [raised |-> "none", terms |-> time_terms(self)]
    /\ UNCHANGED <<self, requests, files, cluster_vars, random_vars, heap_vars>>

distance_call ==
    /\ method.name = "none"
    /\ method' = [name |-> "distance"]
    /\ outcome' = [raised |-> "none", terms |-> distance_terms(self)]
    /\ UNCHANGED <<self, requests, files, cluster_vars, random_vars, heap_vars>>

InitMeasures ==
    /\ cluster_idle
    /\ heap_idle
    /\ random_idle
    /\ \E n \in 0 .. MaxSegments :
          \E kinds \in [1 .. n -> SegmentKinds] : self = MeasuredTrack(kinds)
    /\ method = [name |-> "none"]
    /\ outcome = [raised |-> "none"]
    /\ requests = 0
    /\ files = 0

NextMeasures ==
    \/ co2_call
    \/ time_call
    \/ distance_call

SpecMeasures == InitMeasures /\ [][NextMeasures]_vars

\* ----------------------------------------- tracks.py, SingleTrack.corners
\* The longest chain code.
MaxCC == 4

Directions == {"1", "2", "3", "4"}

ChainCodes == UNION {[1 .. n -> Directions] : n \in 0 .. MaxCC}

Starts == {<<0, 0>>, <<2, 3>>}

\* int() of a character of the chain code.
int(direction) ==
    CASE direction = "1" -> 1 [] direction = "2" -> 2
      [] direction = "3" -> 3 [] direction = "4" -> 4

\* Line 302 taking every change of direction for a corner.
is_corner_any(prev, direction) == int(prev) # int(direction)

\* Line 302: (int(prev) - int(direction))%2 == 1; Python's % yields 0 or 1 here.
is_corner(prev, direction) == (int(prev) - int(direction)) % 2 = 1

\* Lines 305-312: the coordinate after a step in direction.
corners_step(coordinate, direction) ==
    CASE direction = "1" -> <<coordinate[1] + 1, coordinate[2]>>
      [] direction = "2" -> <<coordinate[1], coordinate[2] + 1>>
      [] direction = "3" -> <<coordinate[1] - 1, coordinate[2]>>
      [] direction = "4" -> <<coordinate[1], coordinate[2] - 1>>

\* Lines 296-314: coordinate, corner_list and prev after the first n directions.
RECURSIVE corners_loop(_, _)
corners_loop(track, n) ==
    IF n = 0
    THEN [coordinate |-> track.start, corner_list |-> <<track.start>>, prev |-> "None"]
    ELSE LET before == corners_loop(track, n - 1)
             direction == track.cc[n]
         IN [coordinate |-> corners_step(before.coordinate, direction),
             corner_list |->
                 IF before.prev = "None" THEN before.corner_list
                 ELSE IF is_corner(before.prev, direction)
                 THEN Append(before.corner_list, before.coordinate)
                 ELSE before.corner_list,
             prev |-> direction]

\* corners, tracks.py:296-316.
corners(track) ==
    LET after == corners_loop(track, Len(track.cc))
    IN Append(after.corner_list, after.coordinate)

corners_call ==
    /\ method.name = "none"
    /\ method' = [name |-> "corners"]
    /\ outcome' = [raised |-> "none", value |-> corners(self)]
    /\ UNCHANGED <<self, requests, files, cluster_vars, random_vars, heap_vars>>

InitCorners ==
    /\ cluster_idle
    /\ heap_idle
    /\ random_idle
    /\ self \in {SingleTrack(start, cc, <<>>, <<>>, <<>>) : start \in Starts, cc \in ChainCodes}
    /\ method = [name |-> "none"]
    /\ outcome = Raised("none")
    /\ requests = 0
    /\ files = 0

NextCorners == corners_call

SpecCorners == InitCorners /\ [][NextCorners]_vars

\* ------------------------------------------------ tracks.py, Tracks.kmeans
\* The most steps of a track that kmeans groups.
MaxSteps == 2

\* The tracks kmeans is called on: n level steps on a local, paved road.  Their
\* (co2, time, distance) are n times those of one such step, points of one line
\* through the origin: measured on each axis in units of that step, they keep
\* the ratios of all their distances and the means of all their subsets, and
\* they are small integers.
LevelTrack(n) ==
    SingleTrack(<<0, 0>>, [i \in 1 .. n |-> "1"], [i \in 1 .. n |-> "l"],
                [i \in 1 .. n |-> "p"], [i \in 1 .. (n + 1) |-> 0])

KmeansTracks == {LevelTrack(n) : n \in 0 .. MaxSteps}

KmeansObjects == UNION {[1 .. n -> KmeansTracks] : n \in 0 .. MaxN}

\* Line 179: (track.co2(), track.time(), track.distance()), each in units of the
\* value for LevelTrack(1).
Features(track) ==
    <<co2(track) \div co2(LevelTrack(1)),
      time(track) \div time(LevelTrack(1)),
      distance(track) \div distance(LevelTrack(1))>>

\* A track of no step has the int 0 for every measure (tracks.py:381, 432, 463),
\* any other has floats: np.array(points) is int64 only if every track has no step.
FeaturesDtype(obj) ==
    IF \A n \in DOMAIN obj : Len(obj[n].elevation) <= 1 THEN "int64" ELSE "float64"

\* The draws np.random.choice can make where line 41 is reached with 0 <= k <= n.
DrawsFor(n, k) == IF k >= 0 /\ k <= n THEN np_random_choice(n, k) ELSE {<<>>}

\* cluster_numpy(points, Max_iterations=m, clusters=k), clustering_numpy.py:33-62,
\* with the positions draw chosen at line 41.
cluster_numpy_outcome(points, m, k, draw, dt, nancast) ==
    IF NumpyClustersExceedPoints(k, Len(points)) THEN Raised("ValueError")
    ELSE IF Len(points) = 0 THEN Raised("IndexError")
    ELSE IF k < 0 THEN Raised("ValueError")
    ELSE IF ~NumpyLoopTest(0, m) THEN [raised |-> "none", value |-> <<>>]
    ELSE IF k = 0 THEN Raised("ValueError")
    ELSE [raised |-> "none",
          value |-> NumpyResult(points, k, m,
                                [c \in Ids(k) |-> AsCentroid(points[draw[c + 1]])],
                                dt, nancast, Len(points[1]))]

\* Line 178 making one list too few.
empty_lists_short(k) == [c \in 1 .. (k - 1) |-> <<>>]

\* Line 178: [[] for _ in range(clusters)].
empty_lists(k) == [c \in 1 .. k |-> <<>>]

\* Lines 183-186: the first index whose point equals the allocated point.
first_index(points, allocated_point) ==
    CHOOSE index \in 0 .. (Len(points) - 1) :
        /\ points[index + 1] = allocated_point
        /\ \A j \in 0 .. (Len(points) - 1) : j < index => points[j + 1] # allocated_point

\* Lines 181-187: the lists after the loops over cluster_info; list key of
\* clustered_tracks is at position key + 1.
kmeans_collect(points, cluster_info, clustered_tracks) ==
    IF \E key \in DOMAIN cluster_info : key + 1 \notin DOMAIN clustered_tracks
    THEN Raised("IndexError")
    ELSE [raised |-> "none",
          value |-> [c \in DOMAIN clustered_tracks |->
                        IF c - 1 \in DOMAIN cluster_info
                        THEN [a \in DOMAIN cluster_info[c - 1].allocated_points |->
                                 first_index(points, cluster_info[c - 1].allocated_points[a])]
                        ELSE clustered_tracks[c]]]

\* kmeans, tracks.py:178-187.
kmeans(obj, iterations, k, draw, nancast) ==
    LET clustered_tracks == empty_lists(k)
        points == [n \in DOMAIN obj |-> Features(obj[n])]
        cluster_info == cluster_numpy_outcome(points, iterations, k, draw,
                                              FeaturesDtype(obj), nancast)
    IN IF cluster_info.raised # "none" THEN cluster_info
       ELSE kmeans_collect(points, cluster_info.value, clustered_tracks)

kmeans_call(iterations, k) ==
    /\ method.name = "none"
    /\ method' = [name |-> "kmeans", iterations |-> iterations, clusters |-> k]
    /\ \E draw \in DrawsFor(Len(self), k) : \E nancast \in NanCasts(FeaturesDtype(self)) :
          outcome' = kmeans(self, iterations, k, draw, nancast)
    /\ UNCHANGED <<self, requests, files, cluster_vars, random_vars, heap_vars>>

InitKmeans ==
    /\ cluster_idle
    /\ heap_idle
    /\ random_idle
    /\ self \in KmeansObjects
    /\ method = [name |-> "none"]
    /\ outcome = Raised("none")
    /\ requests = 0
    /\ files = 0

NextKmeans ==
    \E iterations \in IterationBudgets : \E k \in ClusterCounts : kmeans_call(iterations, k)

SpecKmeans == InitKmeans /\ [][NextKmeans]_vars

\* ----------------------------------------------------- load.py, the data
\* A Python number, string, bool or None is the record of its type and of an integer
\* that stands for its value; a tuple, list or dict is the record of its type and
\* of its items.
PyInt(v) == [kind |-> "int", val |-> v]

PyFloat(v) == [kind |-> "float", val |-> v]

PyStr(v) == [kind |-> "str", val |-> v]

PyBool(b) == [kind |-> "bool", val |-> IF b THEN 1 ELSE 0]

PyNone == [kind |-> "NoneType", val |-> 0]

PyTuple(items) == [kind |-> "tuple", items |-> items]

PyList(items) == [kind |-> "list", items |-> items]

PyDict(items) == [kind |-> "dict", items |-> items]

\* The keys is_well_structured asks for, load.py:219-221.
necessary_keys == {"metadata", "tracks"}

necessary_metadata_keys == {"datetime", "end", "mapsize", "start"}

necessary_tracks_keys == {"cc", "elevation", "road", "terrain"}

\* What json.loads or r.json() yields: a value that is no dict, or a dict with some
\* of the keys; dic.metadata and every item of dic.tracks are the sets of the keys
\* present.  dic.data tells what lines 61-83 (176-192) find in the values:
\* "legal", or the exception check_illegal_values or check_tracks_parameter raises.
Dictionaries ==
    [kind : {"list"}, keys : {{}}, metadata : {{}}, tracks : {<<>>}, data : {"legal"}]
    \cup
    [kind : {"dict"},
     keys : SUBSET necessary_keys,
     metadata : {necessary_metadata_keys, necessary_metadata_keys \ {"start"}},
     tracks : {<<>>, <<necessary_tracks_keys>>, <<necessary_tracks_keys \ {"cc"}>>,
               <<necessary_tracks_keys, necessary_tracks_keys \ {"road"}>>},
     data : {"legal", "ValueError", "TypeError"}]

\* is_well_structured, load.py:215-237: the exception raised, or "none".
is_well_structured(dic) ==
    IF dic.kind # "dict" THEN "TypeError"
    ELSE IF \E key \in necessary_keys : key \notin dic.keys THEN "KeyError"
    ELSE IF \E key \in necessary_metadata_keys : key \notin dic.metadata THEN "KeyError"
    ELSE IF \E n \in DOMAIN dic.tracks :
                \E key \in necessary_tracks_keys : key \notin dic.tracks[n]
    THEN "KeyError"
    ELSE "none"

\* Which check of is_well_structured raised: the message of the KeyError.
structure_message(dic) ==
    IF dic.kind # "dict" THEN "The input data should be a dictionary"
    ELSE IF \E key \in necessary_keys : key \notin dic.keys
    THEN "Missing keys in dictionary"
    ELSE IF \E key \in necessary_metadata_keys : key \notin dic.metadata
    THEN "Missing data in dictionary"
    ELSE IF \E n \in DOMAIN dic.tracks :
                \E key \in necessary_tracks_keys : key \notin dic.tracks[n]
    THEN "Missing data in track information"
    ELSE "none"

\* dict_to_tracks, load.py:171-195, and lines 61-86 of load_tracksfile: the Tracks
\* object, unless a check of the values raises.
dict_to_tracks(dic) ==
    IF dic.data # "legal" THEN Raised(dic.data)
    ELSE [raised |-> "none", value |-> "Tracks"]

\* --------------------------------------------------- load.py, query_tracks
\* Line 307 with the bool a subclass of int, as isinstance has it.
is_int_or_bool(v) == v.kind \in {"int", "bool"}

\* Lines 137, 307: type(v) != int.
is_int(v) == v.kind = "int"

\* check_coordinate_valid, load.py:300-312: the exception raised, or "none".
RECURSIVE check_coordinates(_, _, _)
check_coordinates(coordinate_name, items, n) ==
    IF n > Len(items) THEN "none"
    ELSE IF ~is_int(items[n]) THEN "TypeError"
    ELSE IF coordinate_name = "map size" /\ (items[n].val < 0 \/ items[n].val > 300)
    THEN "ValueError"
    ELSE IF coordinate_name \in {"end", "start"}
                /\ (items[n].val < 0 \/ items[n].val > 299)
    THEN "ValueError"
    ELSE check_coordinates(coordinate_name, items, n + 1)

check_coordinate_valid(coordinate_name, list_or_tuple) ==
    IF list_or_tuple.kind # "list" /\ list_or_tuple.kind # "tuple" THEN "TypeError"
    ELSE IF Len(list_or_tuple.items) # 2 THEN "ValueError"
    ELSE check_coordinates(coordinate_name, list_or_tuple.items, 1)

\* Line 132: min_steps_straight + 5; Python adds an int to an int, a bool or a float
\* and raises TypeError for a str, None or a list.
plus_five(v) ==
    IF v.kind \in {"int", "bool"} THEN PyInt(v.val + 5)
    ELSE IF v.kind = "float" THEN PyFloat(v.val + 5)
    ELSE [kind |-> "TypeError", val |-> 0]

\* Lines 131-142: the exception the validation raises, or "none".
query_tracks_validation(a) ==
    LET max_steps_straight ==
            IF a.max_steps_straight = PyNone THEN plus_five(a.min_steps_straight)
            ELSE a.max_steps_straight
    IN IF max_steps_straight.kind = "TypeError" THEN "TypeError"
       ELSE IF check_coordinate_valid("start", a.start) # "none"
       THEN check_coordinate_valid("start", a.start)
       ELSE IF check_coordinate_valid("end", a.end) # "none"
       THEN check_coordinate_valid("end", a.end)
       ELSE IF \/ ~is_int(a.min_steps_straight)
               \/ ~is_int(max_steps_straight)
               \/ ~is_int(a.n_tracks)
               \/ a.save.kind # "bool"
       THEN "TypeError"
       ELSE IF \/ a.min_steps_straight.val < 0
               \/ max_steps_straight.val < 0
               \/ a.n_tracks.val < 0
       THEN "ValueError"
       ELSE IF a.min_steps_straight.val > max_steps_straight.val THEN "ValueError"
       ELSE "none"

\* The coordinates and numbers a caller passes.
CoordinateItems == {PyInt(-1), PyInt(0), PyInt(299), PyInt(300), PyStr(1), PyBool(TRUE)}

StartArguments ==
    {PyTuple(items) : items \in UNION {[1 .. n -> CoordinateItems] : n \in 1 .. 2}}
    \cup {PyList(<<PyInt(0), PyInt(0)>>), PyDict(<<PyInt(10), PyInt(20)>>)}

EndArguments ==
    {PyTuple(<<PyInt(299), PyInt(299)>>), PyTuple(<<PyInt(300), PyInt(300)>>),
     PyTuple(<<PyInt(10)>>), PyList(<<PyInt(0), PyFloat(1)>>),
     PyDict(<<PyInt(10), PyInt(20)>>)}

QueryArguments ==
    [start : StartArguments,
     end : EndArguments,
     min_steps_straight : {PyInt(-1), PyInt(1), PyInt(3), PyStr(1), PyBool(TRUE)},
     max_steps_straight : {PyNone, PyInt(-1), PyInt(2), PyInt(6), PyFloat(6)},
     n_tracks : {PyInt(-1), PyInt(0), PyInt(300), PyStr(1)},
     save : {PyBool(TRUE), PyBool(FALSE), PyInt(1)}]

\* What the web service answers: nothing, the host is not reached, or a dictionary.
Responses == {[reached |-> FALSE]} \cup {[reached |-> TRUE, dic |-> dic] : dic \in Dictionaries}

\* query_tracks, load.py:130-167.  isConnected sends one request, line 150 a second.
query_tracks_answered(a, response) ==
    /\ query_tracks_validation(a) = "none"
    /\ IF ~response.reached
       THEN /\ requests' = requests + 1
            /\ outcome' = Raised("ConnectionError")
            /\ UNCHANGED files
       ELSE /\ requests' = requests + 2
            /\ IF is_well_structured(response.dic) # "none"
               THEN /\ outcome' = Raised(is_well_structured(response.dic))
                    /\ UNCHANGED files
               ELSE IF a.save = PyBool(TRUE)
               THEN /\ files' = files + 1
                    /\ outcome' = [raised |-> "none", value |-> "None"]
               ELSE /\ outcome' = dict_to_tracks(response.dic)
                    /\ UNCHANGED files

query_tracks_rejected(a) ==
    /\ query_tracks_validation(a) # "none"
    /\ outcome' = Raised(query_tracks_validation(a))
    /\ UNCHANGED <<requests, files>>

query_tracks_call ==
    /\ method.name = "none"
    /\ \E a \in QueryArguments :
          /\ method' = [name |-> "query_tracks", arguments |-> a]
          /\ \/ query_tracks_rejected(a)
             \/ \E response \in Responses : query_tracks_answered(a, response)
    /\ UNCHANGED <<self, cluster_vars, random_vars, heap_vars>>

NextQuery == query_tracks_call

SpecQuery == Init /\ [][NextQuery]_vars

\* ------------------------------------------------ load.py, load_tracksfile
\* A path: nothing is there, or a directory, or a file; whether its name ends in
\* '.json'; what the first line of the file holds: bytes that are no UTF-8, text that
\* is no JSON, or the JSON of a value.
FirstLines ==
    {[text |-> "undecodable"], [text |-> "not JSON"]}
    \cup {[text |-> "JSON", dic |-> dic] : dic \in Dictionaries}

FilePaths ==
    [exists : {"missing", "directory"}, json : BOOLEAN, line : {[text |-> "not JSON"]}]
    \cup [exists : {"file"}, json : BOOLEAN, line : FirstLines]

RaisedWith(exc, message) == [raised |-> exc, message |-> message]

\* load_tracksfile, load.py:48-86.
load_tracksfile(file_path) ==
    IF file_path.exists = "missing" THEN RaisedWith("OSError", "File is not accessible.")
    ELSE IF file_path.exists = "directory" THEN RaisedWith("IsADirectoryError", "open")
    ELSE IF file_path.line.text = "undecodable"
    THEN RaisedWith("UnicodeDecodeError", "readline")
    ELSE IF ~file_path.json THEN RaisedWith("TypeError", "Input data must be JSON.")
    ELSE IF file_path.line.text = "not JSON" THEN RaisedWith("JSONDecodeError", "loads")
    ELSE IF is_well_structured(file_path.line.dic) # "none"
    THEN RaisedWith(is_well_structured(file_path.line.dic),
                    structure_message(file_path.line.dic))
    ELSE dict_to_tracks(file_path.line.dic)

load_tracksfile_call ==
    /\ method.name = "none"
    /\ \E file_path \in FilePaths :
          /\ method' = [name |-> "load_tracksfile", file_path |-> file_path]
          /\ outcome' = load_tracksfile(file_path)
    /\ UNCHANGED <<self, requests, files, cluster_vars, random_vars, heap_vars>>

NextLoad == load_tracksfile_call

SpecLoad == Init /\ [][NextLoad]_vars

\* --------------------------------------- load.py, the values of a dictionary
\* A str whose characters are read one by one: the record of its characters.
PyText(chars) == [kind |-> "str", items |-> chars]

\* (v[0], v[1]), load.py:65-67 and 175-177: a list or tuple gives its first two
\* items whatever its length from 2 on, a str its first two characters; too short a
\* sequence raises IndexError, a dict of JSON, whose keys are strs, KeyError, and a
\* number, a bool or None TypeError.
first_two(v) ==
    IF v.kind \in {"list", "tuple"}
    THEN IF Len(v.items) >= 2
         THEN [raised |-> "none", value |-> PyTuple(<<v.items[1], v.items[2]>>)]
         ELSE Raised("IndexError")
    ELSE IF v.kind = "str"
    THEN IF Len(v.items) >= 2
         THEN [raised |-> "none",
               value |-> PyTuple(<<PyText(<<v.items[1]>>), PyText(<<v.items[2]>>)>>)]
         ELSE Raised("IndexError")
    ELSE IF v.kind = "dict" THEN Raised("KeyError")
    ELSE Raised("TypeError")

\* len(v) raises TypeError for a number, a bool and None.
has_len(v) == v.kind \in {"str", "list", "tuple", "dict"}

\* check_illegal_values, load.py:241-269: the exception raised, or "none".
check_illegal_values(cc, road, terrain, elevation) ==
    IF ~has_len(cc) \/ ~has_len(elevation) \/ ~has_len(terrain) \/ ~has_len(road)
    THEN "TypeError"
    ELSE IF \/ Len(cc.items) + 1 # Len(elevation.items)
            \/ Len(cc.items) # Len(terrain.items)
            \/ Len(cc.items) # Len(road.items)
    THEN "ValueError"
    ELSE IF cc.kind # "str" THEN "TypeError"
    ELSE IF \E n \in DOMAIN cc.items : cc.items[n] \notin {"1", "2", "3", "4"}
    THEN "ValueError"
    ELSE IF elevation.kind # "list" THEN "TypeError"
    ELSE IF \E n \in DOMAIN elevation.items : ~is_int(elevation.items[n]) THEN "TypeError"
    ELSE IF road.kind # "str" THEN "TypeError"
    ELSE IF \E n \in DOMAIN road.items : road.items[n] \notin {"r", "l", "m"}
    THEN "ValueError"
    ELSE IF terrain.kind # "str" THEN "TypeError"
    ELSE IF \E n \in DOMAIN terrain.items : terrain.items[n] \notin {"p", "g", "d"}
    THEN "ValueError"
    ELSE "none"

\* is_valid_date, load.py:272-278.  The strs a date can be are numbered: 1 is a str
\* that time.strptime parses with "%Y-%m-%dT%H:%M:%S", 0 one it raises ValueError for.
is_valid_date(strdate) == strdate.val = 1

\* check_tracks_parameter, load.py:281-297: the exception raised, or "none".
check_tracks_parameter(date, map_size, end, start) ==
    IF date.kind # "str" THEN "TypeError"
    ELSE IF ~is_valid_date(date) THEN "ValueError"
    ELSE IF check_coordinate_valid("map size", map_size) # "none"
    THEN check_coordinate_valid("map size", map_size)
    ELSE IF check_coordinate_valid("end", end) # "none"
    THEN check_coordinate_valid("end", end)
    ELSE IF check_coordinate_valid("start", start) # "none"
    THEN check_coordinate_valid("start", start)
    ELSE IF end.items[1].val > map_size.items[1].val \/ end.items[2].val > map_size.items[2].val
    THEN "ValueError"
    ELSE IF \/ start.items[1].val > map_size.items[1].val
            \/ start.items[2].val > map_size.items[2].val
    THEN "ValueError"
    ELSE "none"

\* Lines 71-80 (181-188): the first exception check_illegal_values raises for a
\* track, in the order of the tracks, or "none".
RECURSIVE check_tracks(_, _)
check_tracks(tracks, n) ==
    IF n > Len(tracks) THEN "none"
    ELSE LET raised_here == check_illegal_values(tracks[n].cc, tracks[n].road,
                                                 tracks[n].terrain, tracks[n].elevation)
         IN IF raised_here # "none" THEN raised_here ELSE check_tracks(tracks, n + 1)

\* Lines 61-86 of load_tracksfile and 173-195 of dict_to_tracks, which are the same
\* statements, on a dictionary that is_well_structured has passed: the Tracks object
\* as the record of its attributes, or the exception raised.
tracks_of_values(dic) ==
    LET start == first_two(dic.metadata.start)
        end == first_two(dic.metadata.end)
        map_size == first_two(dic.metadata.mapsize)
        date == dic.metadata.datetime
    IN IF start.raised # "none" THEN start
       ELSE IF end.raised # "none" THEN end
       ELSE IF map_size.raised # "none" THEN map_size
       ELSE IF check_tracks(dic.tracks, 1) # "none" THEN Raised(check_tracks(dic.tracks, 1))
       ELSE IF check_tracks_parameter(date, map_size.value, end.value, start.value) # "none"
       THEN Raised(check_tracks_parameter(date, map_size.value, end.value, start.value))
       ELSE [raised |-> "none",
             value |-> [start |-> start.value, end |-> end.value,
                        map_size |-> map_size.value, date |-> date,
                        tracks |-> [n \in DOMAIN dic.tracks |->
                                       SingleTrack(start.value, dic.tracks[n].cc,
                                                   dic.tracks[n].road, dic.tracks[n].terrain,
                                                   dic.tracks[n].elevation)]]]

Pair(x, y) == PyList(<<PyInt(x), PyInt(y)>>)

\* The values the metadata of a dictionary holds.
StartValues ==
    {Pair(0, 0), Pair(299, 299), Pair(300, 0), Pair(-1, 0),
     PyList(<<PyInt(0), PyInt(0), PyInt(7)>>), PyList(<<PyInt(0)>>),
     PyList(<<PyStr(1), PyInt(0)>>), PyText(<<"1", "2">>), PyInt(5)}

EndValues == {Pair(0, 0), Pair(299, 0), PyList(<<PyInt(0), PyInt(0), PyStr(1)>>)}

MapsizeValues ==
    {Pair(300, 300), Pair(0, 0), Pair(301, 300),
     PyList(<<PyInt(300), PyInt(300), PyInt(-1)>>)}

DateValues == {PyStr(1), PyStr(0), PyInt(20211211)}

\* The values a track of a dictionary holds.
CcValues == {PyText(<<>>), PyText(<<"1">>), PyText(<<"5">>), PyList(<<"1">>), PyInt(1)}

RoadValues == {PyText(<<>>), PyText(<<"r">>), PyText(<<"x">>), PyText(<<"r", "l">>)}

TerrainValues == {PyText(<<>>), PyText(<<"p">>), PyText(<<"x">>)}

ElevationValues ==
    {PyList(<<PyInt(1)>>), PyList(<<PyInt(1), PyInt(2)>>),
     PyList(<<PyInt(1), PyFloat(2)>>), PyList(<<PyInt(1), PyBool(TRUE)>>),
     PyTuple(<<PyInt(1), PyInt(2)>>)}

TrackValues ==
    [cc : CcValues, road : RoadValues, terrain : TerrainValues, elevation : ElevationValues]

\* A track that passes every check.
LegalTrack ==
    [cc |-> PyText(<<"1">>), road |-> PyText(<<"r">>), terrain |-> PyText(<<"p">>),
     elevation |-> PyList(<<PyInt(1), PyInt(2)>>)]

\* The dictionaries with every key: no track, one track, or a track after a legal one.
ValueDictionaries ==
    [metadata : [start : StartValues, end : EndValues, mapsize : MapsizeValues,
                 datetime : DateValues],
     tracks : {<<>>} \cup {<<track>> : track \in TrackValues}
                  \cup {<<LegalTrack, track>> : track \in TrackValues}]

dict_to_tracks_call ==
    /\ method.name = "none"
    /\ \E dic \in ValueDictionaries :
          /\ method' = [name |-> "dict_to_tracks", dic |-> dic]
          /\ outcome' = tracks_of_values(dic)
    /\ UNCHANGED <<self, requests, files, cluster_vars, random_vars, heap_vars>>

\* load_tracksfile on an existing '.json' file whose first line is the JSON of dic.
load_tracksfile_values_call ==
    /\ method.name = "none"
    /\ \E dic \in ValueDictionaries :
          /\ method' = [name |-> "load_tracksfile", dic |-> dic]
          /\ outcome' = tracks_of_values(dic)
    /\ UNCHANGED <<self, requests, files, cluster_vars, random_vars, heap_vars>>

NextValues ==
    \/ dict_to_tracks_call
    \/ load_tracksfile_values_call

SpecValues == Init /\ [][NextValues]_vars

\* ------------------------------------------------------------------ claims

\* A valid call: 1 <= K <= N and M >= 1.
Valid ==
    /\ fn # "none"
    /\ clusters >= 1
    /\ clusters <= Len(points_list)
    /\ Max_iterations >= 1

\* The call has ended, by a return or by an exception.
Ended == pc \in {"done", "raised"}

\* A pass of either loop is taken in this step.
PassStep == pc = "loop" /\ iteration' = iteration + 1

\* The centres the initializer chose.
InitialCenters == [c \in Ids(clusters) |-> AsCentroid(points_list[picks[c + 1]])]

Occurrences(seq, v) == Cardinality({n \in DOMAIN seq : seq[n] = v})

MemberOccurrences(info, v) ==
    SumOver([c \in DOMAIN info |-> Occurrences(info[c].allocated_points, v)], DOMAIN info)

MemberCount(info) ==
    SumOver([c \in DOMAIN info |-> Len(info[c].allocated_points)], DOMAIN info)

\* C1: a valid call that returns the dictionary never raises, and the dictionary has
\* exactly the keys 0..K-1 and holds every input point, as often as the input list
\* does, across the 'allocated_points' lists, which hold nothing else: the lists
\* partition the input positions.
C1_Partition ==
    /\ (Valid /\ ~output_print) => pc # "raised"
    /\ (Valid /\ pc = "done" /\ returned = "dict") =>
          /\ DOMAIN clusters_information = Ids(clusters)
          /\ MemberCount(clusters_information) = Len(points_list)
          /\ \A n \in DOMAIN points_list :
                MemberOccurrences(clusters_information, points_list[n])
                    = Occurrences(points_list, points_list[n])

\* A returned partition of a list with a duplicated point into two non-empty lists.
C1_Witness ==
    /\ Valid /\ pc = "done" /\ returned = "dict"
    /\ fn = "cluster_numpy"
    /\ clusters = 2
    /\ \E n, m \in DOMAIN points_list : n # m /\ points_list[n] = points_list[m]
    /\ \A c \in Ids(clusters) : Len(clusters_information[c].allocated_points) > 0

\* C2: in a pass that allocates no point to a cluster, the cluster's centre after
\* the pass is its centre before the pass, in cluster and in cluster_numpy.
C2_EmptyClusterKeepsCentre ==
    [][PassStep =>
          \A c \in Ids(clusters) :
              (\A n \in DOMAIN allocated_cluster' : allocated_cluster'[n] # c)
                  => centers'[c] = centers[c]]_vars

\* C3: from the same points, K, M and initial centres, cluster_numpy returns the
\* assignment and the centres cluster returns.
C3_SameResult ==
    (Valid /\ fn = "cluster_numpy" /\ pc = "done" /\ returned = "dict") =>
        clusters_information
            = ClusterResult(points_list, clusters, Max_iterations, InitialCenters, dimension)

\* C4: a call with K <= 0 or M <= 0 fails before any iteration; it never returns.
C4_InvalidConfigurationNeverReturns ==
    (fn # "none" /\ (clusters <= 0 \/ Max_iterations <= 0)) => pc # "done"

\* C5: a call with K > N has raised ValueError with no centre chosen, no pass run
\* and no result.
C5_TooManyClustersRaises ==
    (fn # "none" /\ clusters > Len(points_list)) =>
        /\ pc = "raised"
        /\ raised = "ValueError"
        /\ picks = <<>>
        /\ centers = <<>>
        /\ iteration = 0
        /\ allocated_cluster = <<>>
        /\ clusters_information = <<>>
        /\ returned = "nothing"

\* cluster_numpy has rejected two clusters for one point.
C5_Witness ==
    /\ fn = "cluster_numpy"
    /\ Len(points_list) = 1
    /\ clusters = 2
    /\ raised = "ValueError"

\* C6: in a valid call, the indices the initializer drew are pairwise distinct.
C6_DistinctInitialPoints ==
    Valid => \A i, j \in DOMAIN picks : i # j => picks[i] # picks[j]

\* C7: a valid call never runs more than M passes, has run exactly M when it ends,
\* and can end once it has run them.
C7_ExactlyMPasses ==
    Valid =>
        /\ iteration <= Max_iterations
        /\ Ended => iteration = Max_iterations
        /\ (pc = "loop" /\ iteration = Max_iterations)
               => ENABLED (cluster_finish \/ cluster_numpy_finish)

\* Two passes were run although no pass moved a centre.
C7_Witness ==
    /\ Valid /\ pc = "done"
    /\ fn = "cluster"
    /\ Max_iterations = 2
    /\ iteration = 2
    /\ centers = InitialCenters

\* C8: in every pass, a point is never allocated to the higher of two cluster ids
\* whose centres are equally far from it.
C8_LowestIdWins ==
    [][PassStep =>
          \A n \in DOMAIN points_list : \A i, j \in Ids(clusters) :
              (/\ i < j
               /\ ~centers[i].nan
               /\ ~centers[j].nan
               /\ calculate_distance(centers[i], points_list[n], dimension)
                      = calculate_distance(centers[j], points_list[n], dimension))
                  => allocated_cluster'[n] # j]_vars

\* After the first pass: a point equally far from two different initial centres, and
\* nearer to no other, went to cluster 0.
C8_Witness ==
    /\ Valid /\ iteration = 1 /\ clusters >= 2
    /\ InitialCenters[0] # InitialCenters[1]
    /\ \E n \in DOMAIN points_list :
          /\ calculate_distance(InitialCenters[0], points_list[n], dimension)
                 = calculate_distance(InitialCenters[1], points_list[n], dimension)
          /\ allocated_cluster[n] = 0

\* The result the scenario expects: (0,0),(0,1) centred at (0,0.5) and
\* (10,10),(10,11) centred at (10,10.5).
ScenarioResult ==
    [c \in Ids(2) |->
        IF c = 0
        THEN Entry(Centroid(<<Num(0), Num(1) \div 2>>), << <<0, 0>>, <<0, 1>> >>)
        ELSE Entry(Centroid(<<Num(10), Num(21) \div 2>>), << <<10, 10>>, <<10, 11>> >>)]

\* C9: the scenario's call, with (0,0) and (10,10) drawn as initial centres, returns
\* the scenario's result from cluster and from cluster_numpy.
C9_Scenario ==
    (/\ points_list = Scenario.points_list
     /\ Max_iterations = Scenario.Max_iterations
     /\ clusters = Scenario.clusters
     /\ picks = <<1, 3>>
     /\ pc = "done" /\ returned = "dict")
        => clusters_information = ScenarioResult

\* The summary the print mode is to emit: one line per cluster id, with the centre
\* and the number of members, followed by the members.
SummaryLines(info) ==
    [l \in 1 .. Cardinality(DOMAIN info) |->
        [cluster |-> l - 1,
         center |-> info[l - 1].center,
         points |-> Len(info[l - 1].allocated_points),
         members |-> info[l - 1].allocated_points]]

\* C10: a valid call in print mode ends without an exception, having printed the
\* summary of every cluster.
C10_PrintsSummary ==
    (Valid /\ output_print /\ Ended) =>
        /\ raised = "none"
        /\ printed = SummaryLines(clusters_information)


\* The assignment a pass computes from the centres it starts with.
PreUpdateAssignment ==
    IF fn = "cluster" THEN ClusterAllocate(points_list, clusters, centers, dimension)
    ELSE Calculate_index(points_list, centers)

\* C11: the result is written in the final pass only: a pass with t # M-1 leaves it
\* empty, the pass with t = M-1 writes for every cluster the centre after that
\* pass's update and the points the pass allocated to it from the centres the pass
\* started with, and no other step changes it.
C11_BuiltInFinalPass ==
    [][/\ (PassStep /\ iteration # Max_iterations - 1)
              => (clusters_information = <<>> /\ clusters_information' = <<>>)
       /\ (PassStep /\ iteration = Max_iterations - 1)
              => /\ DOMAIN clusters_information' = Ids(clusters)
                 /\ \A c \in Ids(clusters) :
                       /\ clusters_information'[c].center = centers'[c]
                       /\ clusters_information'[c].allocated_points
                              = AllocatedPoints(points_list, PreUpdateAssignment, c)
       /\ ~PassStep => clusters_information' = clusters_information]_vars

\* A returned result of two passes whose members are not the members the first pass
\* allocated.
C11_Witness ==
    /\ Valid /\ pc = "done" /\ returned = "dict"
    /\ Max_iterations = 2
    /\ \E c \in Ids(clusters) :
          clusters_information[c].allocated_points
              # AllocatedPoints(points_list,
                                ClusterAllocate(points_list, clusters, InitialCenters, dimension), c)

\* Some point has not the number of coordinates the first point has.
DimensionMismatch ==
    /\ fn # "none"
    /\ \E n \in DOMAIN points_list : Len(points_list[n]) # Len(points_list[1])

\* C12: a valid call with a point whose dimension differs from the first point's runs
\* no pass and returns nothing.
C12_DimensionMismatchFails ==
    (Valid /\ DimensionMismatch) =>
        /\ iteration = 0
        /\ clusters_information = <<>>
        /\ pc # "done"

\* The positions a call draws when no other call draws from its generator.
AlonePicks(c) ==
    IF c.fn = "cluster"
    THEN [d \in 1 .. c.clusters |-> randrange(stream, d - 1, Len(c.points_list)) + 1]
    ELSE choice_from(stream, 0, Len(c.points_list), c.clusters)

\* C13: whatever the interleaving of two calls, each call's initial centres and
\* result are those it has when the other call does not run.
C13_CallsShareNothing ==
    \A i \in CallIds :
        /\ calls[i].pc \in {"loop", "done"} => calls[i].picks = AlonePicks(calls[i])
        /\ calls[i].pc = "done"
               => calls[i].result = CallResult(calls[i], AlonePicks(calls[i]))

\* C14: a call that passes a seed is accepted, and two calls with the same points, K
\* and seed draw the same initial centres and return the same result.
C14_SeedReproduces ==
    /\ \A i \in CallIds :
          (calls[i].pc # "idle" /\ calls[i].seed # "none") => calls[i].raised # "TypeError"
    /\ \A i, j \in CallIds :
          (/\ calls[i].seed # "none"
           /\ calls[i].seed = calls[j].seed
           /\ calls[i].fn = calls[j].fn
           /\ calls[i].points_list = calls[j].points_list
           /\ calls[i].clusters = calls[j].clusters
           /\ calls[i].pc = "done" /\ calls[j].pc = "done")
              => (calls[i].picks = calls[j].picks /\ calls[i].result = calls[j].result)

\* The measure each of the three methods minimises.
Measure(name, track) ==
    CASE name = "greenest" -> co2(track)
      [] name = "fastest" -> time(track)
      [] name = "shortest" -> distance(track)

\* C16: greenest, fastest and shortest raise AttributeError on an empty Tracks, and
\* otherwise return the stored track at the first position whose co2, time or
\* distance no stored track undercuts; the stored list is what it was.
C16_LeastTrack ==
    [][method'.name \in {"greenest", "fastest", "shortest"} =>
          /\ self' = self
          /\ Len(self) = 0 => outcome' = Raised("AttributeError")
          /\ Len(self) > 0 =>
                /\ outcome'.raised = "none"
                /\ outcome'.index \in 0 .. (Len(self) - 1)
                /\ outcome'.value = self[outcome'.index + 1]
                /\ \A n \in DOMAIN self :
                      Measure(method'.name, outcome'.value) <= Measure(method'.name, self[n])
                /\ \A n \in DOMAIN self :
                      n < outcome'.index + 1
                          => Measure(method'.name, self[n])
                                 > Measure(method'.name, outcome'.value)]_vars

\* greenest returned the first of two stored tracks of the same, least, co2 that
\* differ in time.
C16_Witness ==
    /\ method.name = "greenest"
    /\ Len(self) = 2
    /\ outcome.raised = "none"
    /\ outcome.index = 0
    /\ co2(self[1]) = co2(self[2])
    /\ time(self[1]) # time(self[2])

\* C17: get_track(x) with an integer x >= 0 raises AttributeError when no track is
\* stored, returns the track at position x when x < len, and raises ValueError when
\* x >= len.
C17_GetTrack ==
    (method.name = "get_track" /\ method.x >= 0) =>
        /\ Len(self) = 0 => outcome = Raised("AttributeError")
        /\ (Len(self) > 0 /\ method.x < Len(self)) => outcome = Returned(self, method.x)
        /\ (Len(self) > 0 /\ method.x >= Len(self)) => outcome = Raised("ValueError")

\* C15: kmeans(iterations, clusters) with 1 <= clusters <= number of tracks and
\* iterations >= 1 returns a list of exactly `clusters` lists of track indices.
C15_KmeansListCount ==
    (/\ method.name = "kmeans"
     /\ method.clusters >= 1
     /\ method.clusters <= Len(self)
     /\ method.iterations >= 1)
        => /\ outcome.raised = "none"
           /\ DOMAIN outcome.value = 1 .. method.clusters
           /\ \A c \in DOMAIN outcome.value : \A a \in DOMAIN outcome.value[c] :
                  outcome.value[c][a] \in 0 .. (Len(self) - 1)

\* Two lists were returned for three tracks, two of them of equal measures, and one
\* of the lists is empty.
C15_Witness ==
    /\ method.name = "kmeans"
    /\ method.clusters = 2
    /\ method.iterations >= 1
    /\ Len(self) = 3
    /\ self[1] = self[2]
    /\ outcome.raised = "none"
    /\ \E c \in DOMAIN outcome.value : outcome.value[c] = <<>>

\* The displacement of a step: 1 = +x, 2 = +y, 3 = -x, 4 = -y.
Displacement(direction) ==
    CASE direction = "1" -> <<1, 0>> [] direction = "2" -> <<0, 1>>
      [] direction = "3" -> <<-1, 0>> [] direction = "4" -> <<0, -1>>

\* The position after the first k steps of a track.
PositionAfter(track, k) ==
    <<track.start[1] + SumOver([i \in 1 .. k |-> Displacement(track.cc[i])[1]], 1 .. k),
      track.start[2] + SumOver([i \in 1 .. k |-> Displacement(track.cc[i])[2]], 1 .. k)>>

\* Two directions are perpendicular: one is along x, the other along y.
Perpendicular(a, b) == (a \in {"1", "3"}) # (b \in {"1", "3"})

\* The steps of a track whose direction is perpendicular to the step before, in path
\* order.
TurningSteps(track) ==
    SelectSeq([k \in 1 .. Len(track.cc) |-> k],
              LAMBDA k : k >= 2 /\ Perpendicular(track.cc[k - 1], track.cc[k]))

\* C18: for a non-empty chain code, corners() returns the start, then in path order
\* the positions at which a step is perpendicular to the step before it, then the
\* start plus the displacement of the whole chain code; nothing else.
C18_Corners ==
    (method.name = "corners" /\ Len(self.cc) >= 1) =>
        LET turns == TurningSteps(self)
            value == outcome.value
        IN /\ Len(value) = Len(turns) + 2
           /\ value[1] = self.start
           /\ value[Len(value)] = PositionAfter(self, Len(self.cc))
           /\ \A j \in DOMAIN turns : value[j + 1] = PositionAfter(self, turns[j] - 1)

\* corners() of a track that turns once and reverses once has three elements.
C18_Witness ==
    /\ method.name = "corners"
    /\ Len(self.cc) = MaxCC
    /\ \E k \in 2 .. Len(self.cc) : self.cc[k - 1] = "1" /\ self.cc[k] = "3"
    /\ \E k \in 2 .. Len(self.cc) : self.cc[k - 1] = "3" /\ self.cc[k] = "2"
    /\ Len(outcome.value) = 3

\* The exceptions the faults of the arguments of query_tracks call for: TypeError for
\* a start or end that is no list or tuple, for a coordinate that is no int, for a
\* min_steps_straight, max_steps_straight or n_tracks that is no int and for a save
\* that is no bool; ValueError for a start or end of another length than 2, for a
\* coordinate outside 0..299, for a negative number and for min > max.
CoordinateFaults(c) ==
    IF c.kind \notin {"list", "tuple"} THEN {"TypeError"}
    ELSE (IF Len(c.items) # 2 THEN {"ValueError"} ELSE {})
         \cup (IF \E n \in DOMAIN c.items : c.items[n].kind # "int"
               THEN {"TypeError"} ELSE {})
         \cup (IF \E n \in DOMAIN c.items :
                      c.items[n].kind = "int" /\ c.items[n].val \notin 0 .. 299
               THEN {"ValueError"} ELSE {})

NumberFaults(v) ==
    IF v.kind # "int" THEN {"TypeError"}
    ELSE IF v.val < 0 THEN {"ValueError"}
    ELSE {}

QueryFaults(a) ==
    LET max_given == a.max_steps_straight # PyNone
    IN CoordinateFaults(a.start) \cup CoordinateFaults(a.end)
       \cup NumberFaults(a.min_steps_straight)
       \cup (IF max_given THEN NumberFaults(a.max_steps_straight) ELSE {})
       \cup NumberFaults(a.n_tracks)
       \cup (IF a.save.kind # "bool" THEN {"TypeError"} ELSE {})
       \cup (IF /\ max_given
                /\ a.min_steps_straight.kind = "int"
                /\ a.max_steps_straight.kind = "int"
                /\ a.min_steps_straight.val > a.max_steps_straight.val
             THEN {"ValueError"} ELSE {})

\* C19: a call of query_tracks with a faulty argument raises the exception one of its
\* faults calls for, with no request sent and no file written.
C19_QueryRejects ==
    (method.name = "query_tracks" /\ QueryFaults(method.arguments) # {}) =>
        /\ outcome.raised \in QueryFaults(method.arguments)
        /\ requests = 0
        /\ files = 0

\* min_steps_straight = 3 with max_steps_straight = 2, all else valid, was rejected
\* with ValueError.
C19_Witness ==
    /\ method.name = "query_tracks"
    /\ QueryFaults(method.arguments) = {"ValueError"}
    /\ method.arguments.min_steps_straight = PyInt(3)
    /\ method.arguments.max_steps_straight = PyInt(2)
    /\ CoordinateFaults(method.arguments.start) = {}
    /\ CoordinateFaults(method.arguments.end) = {}
    /\ outcome = Raised("ValueError")
    /\ requests = 0

\* A key that is_well_structured asks for is missing at the top, in the metadata,
\* in a track.
MissingTop(dic) == necessary_keys \ dic.keys # {}

MissingMetadata(dic) == necessary_metadata_keys \ dic.metadata # {}

MissingInTrack(dic) ==
    \E n \in DOMAIN dic.tracks : necessary_tracks_keys \ dic.tracks[n] # {}

\* C20: load_tracksfile raises OSError for a path where nothing is, whatever its
\* name ends in; TypeError for any path where something is and whose name does not
\* end in '.json'; for the JSON of a dict in a '.json' file the KeyError of a missing
\* top-level key, else that of a missing metadata key, else that of a missing key
\* of a track; and returns no Tracks object when it raises.
C20_LoadPrecedence ==
    method.name = "load_tracksfile" =>
        LET file_path == method.file_path
            dic == file_path.line.dic
        IN /\ file_path.exists = "missing" => outcome.raised = "OSError"
           /\ (file_path.exists # "missing" /\ ~file_path.json)
                  => outcome.raised = "TypeError"
           /\ (/\ file_path.exists = "file"
               /\ file_path.json
               /\ file_path.line.text = "JSON"
               /\ dic.kind = "dict")
                  => /\ MissingTop(dic)
                        => outcome = RaisedWith("KeyError", "Missing keys in dictionary")
                     /\ (~MissingTop(dic) /\ MissingMetadata(dic))
                        => outcome = RaisedWith("KeyError", "Missing data in dictionary")
                     /\ (~MissingTop(dic) /\ ~MissingMetadata(dic) /\ MissingInTrack(dic))
                        => outcome = RaisedWith("KeyError",
                                                "Missing data in track information")
           /\ outcome.raised # "none" => "value" \notin DOMAIN outcome

\* The factors whose bucket, as the claim lists them, holds a slope of h/10.
BucketsOf(h) ==
    {f \in {16, 45, 100, 130, 235, 290} :
        \/ f = 16 /\ h < -6 * 10
        \/ f = 45 /\ -6 * 10 <= h /\ h < -2 * 10
        \/ f = 100 /\ -2 * 10 <= h /\ h <= 2 * 10
        \/ f = 130 /\ 2 * 10 < h /\ h <= 6 * 10
        \/ f = 235 /\ 6 * 10 < h /\ h <= 10 * 10
        \/ f = 290 /\ h > 10 * 10}

\* C21: co2(), time() and distance() add one term per consecutive pair of elevations,
\* len(elevation) - 1 in all, the i-th with the height difference, the road and the
\* terrain of the i-th segment; the slope factor of a term of co2 is the factor of
\* the one bucket its height difference falls in.
C21_OneTermPerSegment ==
    method.name \in {"co2", "time", "distance"} =>
        /\ Len(outcome.terms) = Len(self.elevation) - 1
        /\ \A i \in DOMAIN outcome.terms :
              LET term == outcome.terms[i]
                  h == self.elevation[i + 1] - self.elevation[i]
              IN /\ term.height_diff = h
                 /\ method.name = "time" => term.speed = road_speed[self.road[i]]
                 /\ method.name = "co2" =>
                       /\ term.f_r = road_cons[self.road[i]]
                       /\ term.f_t = terrain_cons[self.terrain[i]]
                       /\ BucketsOf(h) = {term.f_s}

\* co2() was called on a track of two segments of different roads and terrains,
\* one at the bound -6 of a bucket and one just above the bound 2.
C21_Witness ==
    /\ method.name = "co2"
    /\ Len(outcome.terms) = 2
    /\ self.road[1] # self.road[2]
    /\ self.terrain[1] # self.terrain[2]
    /\ outcome.terms[1].height_diff = -60
    /\ outcome.terms[2].height_diff = 21

\* C22: every pass of cluster gives every point of the list a cluster id of
\* 0..K-1 whose centre, as it is when the pass starts, is at most as far from the
\* point as every other centre.
C22_NearestCentroid ==
    [][(PassStep /\ fn = "cluster") =>
          /\ DOMAIN allocated_cluster' = DOMAIN points_list
          /\ \A n \in DOMAIN points_list :
                /\ allocated_cluster'[n] \in Ids(clusters)
                /\ \A b \in Ids(clusters) :
                      calculate_distance(centers[allocated_cluster'[n]], points_list[n],
                                         dimension)
                          <= calculate_distance(centers[b], points_list[n], dimension)]_vars

\* After the second pass of cluster: the assignment is not the one the first pass
\* made from the initial centres.
C22_Witness ==
    /\ Valid /\ fn = "cluster" /\ iteration = 2
    /\ allocated_cluster
           # ClusterAllocate(points_list, clusters, InitialCenters, dimension)

\* C23: after the update of every pass of cluster and of cluster_numpy, the centre of
\* every cluster the pass allocated a point to is the exact coordinate-wise mean of
\* the points allocated to it: times their number, each coordinate is their sum.
C23_ExactMean ==
    [][PassStep =>
          \A c \in Ids(clusters) :
              LET members == AllocatedPoints(points_list, PreUpdateAssignment, c)
              IN Len(members) > 0 =>
                     /\ ~centers'[c].nan
                     /\ \A i \in 1 .. dimension :
                           centers'[c].at[i] * Len(members)
                               = SumOver([n \in DOMAIN members |-> Num(members[n][i])],
                                         DOMAIN members)]_vars

\* C24: from the call of cluster or cluster_numpy on, every object the caller had
\* made, the list and each of its points, is what it was when the call was made:
\* same kind, same length, same items in the same order.
C24_InputUntouched ==
    frame.pc # "idle" =>
        \A id \in DOMAIN frame.before : heap[id] = frame.before[id]

\* A call has returned after two passes, the first of which moved the centre of a
\* cluster that had a point of the caller for its centre.
C24_Witness ==
    /\ frame.pc = "done"
    /\ frame.iteration = 2
    /\ frame.fn = "cluster"
    /\ heap[2].kind = "list"
    /\ \E c \in 1 .. frame.clusters :
          /\ heap[frame.centers].items[c] \notin DOMAIN frame.before
          /\ heap[heap[frame.centers].items[c]].items
                 \notin {frame.before[id].items : id \in 2 .. Len(frame.before)}

\* The centres the call had after t passes, from the centres the initializer chose.
CentersAfterPasses(t) ==
    IF fn = "cluster"
    THEN ClusterCentersAfter(points_list, clusters, InitialCenters, dimension, t)
    ELSE NumpyCentersAfter(points_list, clusters, InitialCenters, dtype, nan_cast,
                           dimension, t)

\* The result the call returns when it is made with Max_iterations = m.
ResultOfBudget(m) ==
    IF fn = "cluster"
    THEN ClusterResult(points_list, clusters, m, InitialCenters, dimension)
    ELSE NumpyResult(points_list, clusters, m, InitialCenters, dtype, nan_cast, dimension)

\* The latest pass left every centre what it was before it.
LatestPassKeptCenters ==
    /\ iteration >= 1
    /\ centers = CentersAfterPasses(iteration - 1)

\* C25: when a pass of cluster or cluster_numpy has left every centre unchanged, the
\* pass after it computes the same assignment and leaves every centre unchanged
\* again, so that every later pass does; and if it is the last pass of the call, the
\* result it writes is the result of the call with M one less.
C25_FixedPoint ==
    [][(PassStep /\ LatestPassKeptCenters) =>
          /\ centers' = centers
          /\ allocated_cluster' = allocated_cluster
          /\ FinalIteration(iteration, Max_iterations)
                 => clusters_information' = ResultOfBudget(iteration)]_vars

\* Two passes of cluster from two different initial centres, neither of which
\* moved a centre, have written the result.
C25_Witness ==
    /\ Valid /\ fn = "cluster" /\ iteration = 2 /\ Max_iterations = 2
    /\ clusters >= 2
    /\ InitialCenters[0] # InitialCenters[1]
    /\ ClusterCentersAfter(points_list, clusters, InitialCenters, dimension, 1)
           = InitialCenters
    /\ centers = InitialCenters
    /\ DOMAIN clusters_information = Ids(clusters)

\* How often the track index x stands in the lists kmeans returned.
IndexOccurrences(lists, x) ==
    SumOver([c \in DOMAIN lists |-> Occurrences(lists[c], x)], DOMAIN lists)

\* C26: in the list a valid call of kmeans returns, every track index 0..N-1 stands
\* in exactly one inner list, exactly once, whether or not two tracks have the same
\* (co2, time, distance).
C26_KmeansPartition ==
    (/\ method.name = "kmeans"
     /\ method.clusters >= 1
     /\ method.clusters <= Len(self)
     /\ method.iterations >= 1
     /\ outcome.raised = "none")
        => \A x \in 0 .. (Len(self) - 1) : IndexOccurrences(outcome.value, x) = 1

\* v is a list or tuple of exactly two ints between lo and hi.
PairOfInts(v, lo, hi) ==
    /\ v.kind \in {"list", "tuple"}
    /\ Len(v.items) = 2
    /\ \A n \in 1 .. 2 : v.items[n].kind = "int" /\ v.items[n].val >= lo /\ v.items[n].val <= hi

\* start, end, map size and date are what C27 lists.
LegalMetadata(start, end, map_size, date) ==
    /\ PairOfInts(start, 0, 299)
    /\ PairOfInts(end, 0, 299)
    /\ PairOfInts(map_size, 0, 300)
    /\ \A n \in 1 .. 2 : /\ start.items[n].val <= map_size.items[n].val
                         /\ end.items[n].val <= map_size.items[n].val
    /\ date.kind = "str" /\ date.val = 1

\* cc, road, terrain and elevation are what C27 lists.
LegalValues(cc, road, terrain, elevation) ==
    /\ cc.kind = "str" /\ road.kind = "str" /\ terrain.kind = "str"
    /\ elevation.kind = "list"
    /\ Len(cc.items) = Len(road.items)
    /\ Len(cc.items) = Len(terrain.items)
    /\ Len(cc.items) = Len(elevation.items) - 1
    /\ \A n \in DOMAIN cc.items : cc.items[n] \in {"1", "2", "3", "4"}
    /\ \A n \in DOMAIN road.items : road.items[n] \in {"r", "l", "m"}
    /\ \A n \in DOMAIN terrain.items : terrain.items[n] \in {"p", "g", "d"}
    /\ \A n \in DOMAIN elevation.items : elevation.items[n].kind = "int"

\* C27: a Tracks object that load_tracksfile or dict_to_tracks returns has a start and
\* an end that are pairs of integers in 0..299 within the map size, a map size that
\* is a pair of integers in 0..300, a date that parses, and tracks whose cc, road and
\* terrain have one character of their alphabet per step and whose elevation is a
\* list of integers one longer; and a dictionary whose metadata or one of whose
\* tracks is not so raises an error and returns no object.
C27_LoadedTracksLegal ==
    (method.name \in {"dict_to_tracks", "load_tracksfile"} /\ "dic" \in DOMAIN method) =>
        LET dic == method.dic
            legal ==
                /\ LegalMetadata(dic.metadata.start, dic.metadata.end,
                                 dic.metadata.mapsize, dic.metadata.datetime)
                /\ \A n \in DOMAIN dic.tracks :
                      LegalValues(dic.tracks[n].cc, dic.tracks[n].road,
                                  dic.tracks[n].terrain, dic.tracks[n].elevation)
        IN /\ outcome.raised = "none" =>
                 /\ LegalMetadata(outcome.value.start, outcome.value.end,
                                  outcome.value.map_size, outcome.value.date)
                 /\ \A n \in DOMAIN outcome.value.tracks :
                       LegalValues(outcome.value.tracks[n].cc, outcome.value.tracks[n].road,
                                   outcome.value.tracks[n].terrain,
                                   outcome.value.tracks[n].elevation)
           /\ ~legal => (outcome.raised # "none" /\ "value" \notin DOMAIN outcome)

====
